---- MODULE Spec2Model ----
(***************************************************************************)
(* Session orchestration engine of commander (src-tauri):                   *)
(*   - the session registry SESSIONS / SESSION_INDEX and its operations     *)
(*     (commands/cli_commands.rs), checked under Spec;                      *)
(*   - one launch invocation, execute_persistent_cli_command with its PTY   *)
(*     and piped strategies, checked under SpecLaunch / FairSpecLaunch;     *)
(*   - the pure functions parse_command_structure and                       *)
(*     build_agent_command_args (commands/cli_commands.rs), checked under   *)
(*     SpecParse and SpecBuild;                                             *)
(*   - sanitize_cli_output_line and CodexStreamAccumulator                  *)
(*     (services/cli_output_service.rs), checked under SpecSanitize and     *)
(*     SpecAccumulator.                                                     *)
(***************************************************************************)
EXTENDS Integers, Sequences, FiniteSets, TLC

VARIABLES
    SESSIONS,       \* primary map: session id -> ActiveSession
    SESSION_INDEX,  \* secondary index: session key -> session id
    process,        \* handle -> "Some" | "None": the Option<Child> behind Arc<Mutex<..>>
    child,          \* handle -> "running" | "exited" | "killed": the OS process
    chan,           \* handle -> [open, msgs]: the mpsc channel behind stdin_sender
    dropPending,    \* handles whose Drop cleanup task is spawned and has not run yet
    now,            \* chrono::Utc::now().timestamp()
    tasks,          \* the concurrently running registry operations
    launch,         \* the state of one launch invocation
    emitted,        \* the "cli-stream" events emitted so far, in order
    parsed,         \* the last call of parse_command_structure: arguments and result
    acc,            \* one CodexStreamAccumulator, the text fed to it and what it returned
    sanitized,      \* the last call of sanitize_cli_output_line: arguments and result
    built,          \* the last call of build_agent_command_args: arguments and result
    recent,         \* the "projects" entry of the store projects.json, and the last call
    locks           \* the guard of each tokio Mutex, where the holder is made explicit

regVars == <<SESSIONS, SESSION_INDEX, process, child, chan, dropPending, now, tasks>>
launchVars == <<launch, emitted>>
pureVars == <<parsed, acc, sanitized, built, recent>>
vars == <<SESSIONS, SESSION_INDEX, process, child, chan, dropPending, now, tasks,
          launch, emitted, parsed, acc, sanitized, built, recent, locks>>

(***************************************************************************)
(* Bounds and input domains                                                 *)
(***************************************************************************)
MaxRegistrations == 2      \* sessions registered in one behaviour
MaxQuits == 1              \* quit lines send-quit puts on one channel
MaxTick == 1               \* clock values kept after 0, and after the threshold
MaxLines == 1              \* lines a child writes to stdout, and to stderr
MaxPtyReads == 1           \* reads of data a PTY child's output takes
MaxOrderedLines == 2       \* lines written to stdout where the order of lines is checked

SESSION_TIMEOUT_SECONDS == 1800

Tasks == {"t1"}
\* every caller of the session management functions; "t2" runs beside "t1"
Callers == {"t1", "t2"}
SessionIds == {"s1", "s2"}
None == <<>>
Some(x) == <<x>>
\* the launches that get registered: agent, working directory, input kept open or not
Launches == {[agent |-> "claude", working_dir |-> None, stdin |-> TRUE],
             [agent |-> "claude", working_dir |-> None, stdin |-> FALSE],
             [agent |-> "codex", working_dir |-> Some("/w"), stdin |-> TRUE]}
Handles == 1..MaxRegistrations
Times == (0..MaxTick) \cup {SESSION_TIMEOUT_SECONDS + k : k \in 1..MaxTick}

EmptyMap == [x \in {} |-> x]
\* a map that keeps the key
MapKeep(m, k) == m
MapRemove(m, k) == [x \in DOMAIN m \ {k} |-> m[x]]
MapInsert(m, k, v) == [x \in DOMAIN m \cup {k} |-> IF x = k THEN v ELSE m[x]]

(***************************************************************************)
(* Session management helpers                                               *)
(***************************************************************************)
generate_session_key(agent, working_dir) ==
    IF working_dir # None THEN agent \o ":" \o working_dir[1] ELSE agent

\* one literal for every agent
QuitForAll(agent) == "/quit"

get_agent_quit_command(agent) ==
    CASE agent = "claude" -> "/quit"
      [] agent = "codex" -> "/exit"
      [] agent = "gemini" -> "/quit"
      [] OTHER -> "/quit"

\* format!("{}\n", quit_cmd)
QuitLine(agent) == get_agent_quit_command(agent) \o "\n"

\* sender.send(msg) on an unbounded channel: fails iff the receiver is gone
SendOk(h) == chan[h].open
ChanAfterSend(h, msg) ==
    IF SendOk(h) THEN [chan EXCEPT ![h].msgs = Append(@, msg)] ELSE chan

(***************************************************************************)
(* Task records                                                             *)
(***************************************************************************)
\* op, pc, sid, todo, time, session are the operation's position and locals; ret and
\* status are what it returns.  log lists the steps of the current terminate call,
\* removed the handles of the sessions the operation took out of SESSIONS, and young
\* and old the sessions a sweep found at most 1800 s, resp. at least 1801 s, idle, and
\* snap the sessions whose ids terminate-all collected.
IdleTask == [op |-> "idle", pc |-> "idle", sid |-> "", todo |-> {}, time |-> 0,
             session |-> None, log |-> <<>>, ret |-> "", status |-> {},
             young |-> {}, old |-> {}, removed |-> {}, snap |-> {}]

\* the launch invocation before execute_persistent_cli_command is called
NoLaunch == [pc |-> "none", command |-> "", session_id |-> "", agent |-> "", working_dir |-> None,
             returned |-> "", gate |-> "", ptyErr |-> "", spawnErr |-> FALSE,
             waited |-> "", ptyChild |-> "none", pipeChild |-> "none",
             pipeCwd |-> None,
             ptyBuf |-> 0, ptyWritten |-> 0,
             stdoutBuf |-> <<>>, stderrBuf |-> <<>>, stdoutWritten |-> 0,
             stderrWritten |-> 0, stdoutReader |-> "none", stderrReader |-> "none"]

\* a task slot is free before its first operation and once an operation has returned
Busy(t) == tasks[t].pc \notin {"idle", "done"}
Fresh(t) == [tasks EXCEPT ![t] = IdleTask]

Init ==
    /\ SESSIONS = EmptyMap
    /\ SESSION_INDEX = EmptyMap
    /\ process = EmptyMap
    /\ child = EmptyMap
    /\ chan = EmptyMap
    /\ dropPending = {}
    /\ now = 0
    /\ tasks = [t \in Callers |-> IdleTask]
    /\ launch = NoLaunch
    /\ emitted = <<>>
    /\ parsed = None
    /\ acc = None
    /\ sanitized = None
    /\ built = None
    /\ recent = [projects |-> <<>>, last |-> None, opened |-> 0, reopened |-> 0]
    /\ locks = [sessions |-> None, index |-> None, process |-> [h \in Handles |-> None]]

(***************************************************************************)
(* Register (spec 4.5): insert a new ActiveSession keyed by session id and  *)
(* update the secondary index in the same transaction.  The handle of the   *)
(* new session is the number of the registration.                           *)
(***************************************************************************)
Register(id, agent, wd, stdin) ==
    LET h == Cardinality(DOMAIN process) + 1
        s == [session |-> [id |-> id, agent |-> agent, working_dir |-> wd,
                           created_at |-> now, last_activity |-> now],
              process |-> h,
              stdin_sender |-> IF stdin THEN Some(h) ELSE None]
    IN  /\ h <= MaxRegistrations
        /\ id \notin DOMAIN SESSIONS
        /\ SESSIONS' = MapInsert(SESSIONS, id, s)
        /\ SESSION_INDEX' = MapInsert(SESSION_INDEX, generate_session_key(agent, wd), id)
        /\ process' = MapInsert(process, h, "Some")
        /\ child' = MapInsert(child, h, "running")
        /\ chan' = MapInsert(chan, h, [open |-> stdin, msgs |-> <<>>])
        /\ UNCHANGED <<dropPending, now, tasks, launchVars, pureVars, locks>>

(***************************************************************************)
(* The environment: the clock, and the reader of a session's input channel  *)
(* going away.                                                              *)
(***************************************************************************)
Tick ==
    /\ \E t \in Times : t > now /\ now' = t
    /\ UNCHANGED <<SESSIONS, SESSION_INDEX, process, child, chan, dropPending, tasks,
                   launchVars, pureVars, locks>>

\* observed while the session still holds the sender
ReceiverDropped(h) ==
    /\ h \in DOMAIN chan
    /\ chan[h].open
    /\ process[h] = "Some"
    /\ chan' = [chan EXCEPT ![h].open = FALSE]
    /\ UNCHANGED <<SESSIONS, SESSION_INDEX, process, child, dropPending, now, tasks,
                   launchVars, pureVars, locks>>

(***************************************************************************)
(* terminate_session_process                                                *)
(***************************************************************************)
\* Ok(()) on every path, whether or not the id was registered
TerminateResultStrict(found) == IF found THEN "Ok" ELSE "Session not found"
TerminateResult(found) == "Ok"

\* where a terminate call returns to: its caller's loop, or the caller of the command
AfterTerminate(op, todo) == IF op = "terminate" \/ todo = {} THEN "done" ELSE "loop"

\* what the command returns: terminate-by-id the result r of the terminate call; the
\* loops discard it (let _ = ..) and return Ok(()) after the last session id
CallerResult(op, todo, r) ==
    IF op = "terminate" THEN r ELSE IF todo = {} THEN "Ok" ELSE ""

\* let session_info = { SESSIONS.lock().await.remove(session_id) };
\* None: the function returns Ok(()) at once
TerminateRemove(base, t, op, id, todo) ==
    IF id \in DOMAIN SESSIONS
    THEN /\ SESSIONS' = MapRemove(SESSIONS, id)
         /\ tasks' = [base EXCEPT ![t].op = op, ![t].sid = id, ![t].todo = todo,
                                   ![t].session = Some(SESSIONS[id]),
                                   ![t].pc = "index",
                                   ![t].log = <<"remove_sessions">>,
                                   ![t].removed = @ \cup {SESSIONS[id].process}]
    ELSE /\ SESSIONS' = SESSIONS
         /\ tasks' = [base EXCEPT ![t].op = op, ![t].sid = id, ![t].todo = todo,
                                   ![t].session = None,
                                   ![t].pc = AfterTerminate(op, todo),
                                   ![t].log = <<>>,
                                   ![t].ret = CallerResult(op, todo, TerminateResult(FALSE))]

\* session_index.remove(&session_key) under the SESSION_INDEX lock
IndexAfterRemoveForgotten(s) == SESSION_INDEX
IndexAfterRemove(s) ==
    MapRemove(SESSION_INDEX, generate_session_key(s.session.agent, s.session.working_dir))

\* if let Some(sender) = &session.stdin_sender { send; sleep }, then the kill
AfterIndexNoQuit(s) == "kill"
AfterIndex(s) == IF s.stdin_sender # None THEN "quit" ELSE "kill"

TerminateIndex(t) ==
    LET s == tasks[t].session[1] IN
    /\ tasks[t].pc = "index"
    /\ SESSION_INDEX' = IndexAfterRemove(s)
    /\ tasks' = [tasks EXCEPT ![t].pc = AfterIndex(s),
                              ![t].log = Append(@, "remove_index")]
    /\ UNCHANGED <<SESSIONS, process, child, chan, dropPending, now, launchVars, pureVars, locks>>

\* let _ = sender.send(format!("{}\n", quit_cmd)); then the grace period starts
TerminateQuit(t) ==
    LET s == tasks[t].session[1] IN
    /\ tasks[t].pc = "quit"
    /\ chan' = ChanAfterSend(s.stdin_sender[1], QuitLine(s.session.agent))
    /\ tasks' = [tasks EXCEPT ![t].pc = "sleep", ![t].log = Append(@, "send_quit")]
    /\ UNCHANGED <<SESSIONS, SESSION_INDEX, process, child, dropPending, now, launchVars, pureVars, locks>>

\* tokio::time::sleep(100ms) has elapsed
TerminateGrace(t) ==
    /\ tasks[t].pc = "sleep"
    /\ tasks' = [tasks EXCEPT ![t].pc = "kill", ![t].log = Append(@, "grace")]
    /\ UNCHANGED <<SESSIONS, SESSION_INDEX, process, child, chan, dropPending, now,
                   launchVars, pureVars, locks>>

\* a destructor that spawns no cleanup task
SpawnNothing(h) == dropPending

\* drop(&mut self): tokio::spawn of the cleanup task for the handle
SpawnCleanup(h) == dropPending \cup {h}

\* process_guard.take() and kill() of what was taken; kill errors are ignored
ChildAfterKill(h) ==
    IF process[h] = "Some" /\ child[h] = "running"
    THEN [child EXCEPT ![h] = "killed"] ELSE child

\* the kill step, then Ok(()): the removed ActiveSession goes out of scope, its
\* Drop spawns the cleanup task, and its sender is dropped with it, which ends the
\* session's input channel
TerminateKill(t) ==
    LET h == tasks[t].session[1].process IN
    /\ tasks[t].pc = "kill"
    /\ child' = ChildAfterKill(h)
    /\ process' = [process EXCEPT ![h] = "None"]
    /\ dropPending' = SpawnCleanup(h)
    /\ chan' = [chan EXCEPT ![h] = [open |-> FALSE, msgs |-> <<>>]]
    /\ tasks' = [tasks EXCEPT ![t].pc = AfterTerminate(tasks[t].op, tasks[t].todo),
                              ![t].log = Append(@, "kill"),
                              ![t].session = None,
                              ![t].ret = CallerResult(tasks[t].op, tasks[t].todo,
                                                     TerminateResult(TRUE))]
    /\ UNCHANGED <<SESSIONS, SESSION_INDEX, now, launchVars, pureVars, locks>>

\* impl Drop for ActiveSession: the spawned task locks the handle, takes and kills
DropCleanup(h) ==
    /\ h \in dropPending
    /\ child' = ChildAfterKill(h)
    /\ process' = [process EXCEPT ![h] = "None"]
    /\ dropPending' = dropPending \ {h}
    /\ UNCHANGED <<SESSIONS, SESSION_INDEX, chan, now, tasks, launchVars, pureVars, locks>>

\* spec 4.5, implicit cleanup: the registry entry is dropped by other means than an
\* explicit termination, with its process handle still present
DropEntry(id) ==
    /\ id \in DOMAIN SESSIONS
    /\ LET h == SESSIONS[id].process IN
       /\ SESSIONS' = MapRemove(SESSIONS, id)
       /\ dropPending' = SpawnCleanup(h)
       /\ chan' = [chan EXCEPT ![h] = [open |-> FALSE, msgs |-> <<>>]]
    /\ UNCHANGED <<SESSION_INDEX, process, child, now, tasks, launchVars, pureVars, locks>>

\* terminate_session_by_id
TerminateById(t, id) ==
    /\ ~Busy(t)
    /\ TerminateRemove(Fresh(t), t, "terminate", id, {})
    /\ UNCHANGED <<SESSION_INDEX, process, child, chan, dropPending, now, launchVars, pureVars, locks>>

(***************************************************************************)
(* cleanup_inactive_sessions (the idle sweep) and terminate_all             *)
(***************************************************************************)
ExpiredAtThreshold(current_time, s) ==
    current_time - s.session.last_activity >= SESSION_TIMEOUT_SECONDS
Expired(current_time, s) ==
    current_time - s.session.last_activity > SESSION_TIMEOUT_SECONDS

\* let current_time = chrono::Utc::now().timestamp();
CleanupStart(t) ==
    /\ ~Busy(t)
    /\ tasks' = [Fresh(t) EXCEPT ![t].op = "cleanup", ![t].pc = "scan", ![t].time = now]
    /\ UNCHANGED <<SESSIONS, SESSION_INDEX, process, child, chan, dropPending, now,
                   launchVars, pureVars, locks>>

\* the scan under the SESSIONS lock
CleanupScan(t) ==
    LET expired == {id \in DOMAIN SESSIONS : Expired(tasks[t].time, SESSIONS[id])} IN
    /\ tasks[t].pc = "scan"
    /\ tasks' = [tasks EXCEPT
                   ![t].todo = expired,
                   ![t].pc = IF expired = {} THEN "done" ELSE "loop",
                   ![t].ret = IF expired = {} THEN "Ok" ELSE "",
                   ![t].old = {SESSIONS[id] : id \in
                       {i \in DOMAIN SESSIONS :
                          tasks[t].time - SESSIONS[i].session.last_activity
                            >= SESSION_TIMEOUT_SECONDS + 1}},
                   ![t].young = {SESSIONS[id] : id \in
                       {i \in DOMAIN SESSIONS :
                          tasks[t].time - SESSIONS[i].session.last_activity
                            <= SESSION_TIMEOUT_SECONDS}}]
    /\ UNCHANGED <<SESSIONS, SESSION_INDEX, process, child, chan, dropPending, now,
                   launchVars, pureVars, locks>>

\* terminate_all_active_sessions: sessions.keys().cloned().collect()
TerminateAllStart(t) ==
    /\ ~Busy(t)
    /\ tasks' = [Fresh(t) EXCEPT ![t].op = "terminate_all",
                              ![t].todo = DOMAIN SESSIONS,
                              ![t].snap = {SESSIONS[id] : id \in DOMAIN SESSIONS},
                              ![t].pc = IF DOMAIN SESSIONS = {} THEN "done" ELSE "loop",
                              ![t].ret = IF DOMAIN SESSIONS = {} THEN "Ok" ELSE ""]
    /\ UNCHANGED <<SESSIONS, SESSION_INDEX, process, child, chan, dropPending, now,
                   launchVars, pureVars, locks>>

\* for session_id in ... { let _ = terminate_session_process(&session_id).await; }
\* (the order is the HashMap's iteration order)
LoopNext(t) ==
    /\ tasks[t].pc = "loop"
    /\ \E id \in tasks[t].todo :
          TerminateRemove(tasks, t, tasks[t].op, id, tasks[t].todo \ {id})
    /\ UNCHANGED <<SESSION_INDEX, process, child, chan, dropPending, now, launchVars, pureVars, locks>>

(***************************************************************************)
(* get_sessions_status and send_quit_to_session: each runs under the        *)
(* SESSIONS lock from its first to its last statement.                      *)
(***************************************************************************)
GetSessionsStatus(t) ==
    /\ ~Busy(t)
    /\ tasks' = [Fresh(t) EXCEPT ![t].op = "status", ![t].pc = "done", ![t].ret = "Ok",
                              ![t].status = {SESSIONS[id].session : id \in DOMAIN SESSIONS}]
    /\ UNCHANGED <<SESSIONS, SESSION_INDEX, process, child, chan, dropPending, now,
                   launchVars, pureVars, locks>>

SendQuitResultSilent(id) ==
    IF id \in DOMAIN SESSIONS
    THEN IF SESSIONS[id].stdin_sender # None
         THEN IF SendOk(SESSIONS[id].stdin_sender[1])
              THEN "Ok" ELSE "Failed to send quit command"
         ELSE "Ok"
    ELSE "Session not found"
SendQuitResult(id) ==
    IF id \in DOMAIN SESSIONS
    THEN IF SESSIONS[id].stdin_sender # None
         THEN IF SendOk(SESSIONS[id].stdin_sender[1])
              THEN "Ok" ELSE "Failed to send quit command"
         ELSE "Session stdin not available"
    ELSE "Session not found"

\* a send-quit that counts as activity of the session
SendQuitTouching(t, id) ==
    /\ ~Busy(t)
    /\ chan' = IF id \in DOMAIN SESSIONS /\ SESSIONS[id].stdin_sender # None
               THEN ChanAfterSend(SESSIONS[id].stdin_sender[1],
                                  QuitLine(SESSIONS[id].session.agent))
               ELSE chan
    /\ chan' # chan => Len(chan[SESSIONS[id].stdin_sender[1]].msgs) < MaxQuits
    /\ tasks' = [Fresh(t) EXCEPT ![t].op = "send_quit", ![t].pc = "done", ![t].sid = id,
                              ![t].ret = "Ok"]
    /\ SESSIONS' = [i \in DOMAIN SESSIONS |->
                      IF i = id THEN [SESSIONS[i] EXCEPT !.session.last_activity = now]
                      ELSE SESSIONS[i]]
    /\ UNCHANGED <<SESSION_INDEX, process, child, dropPending, now, launchVars, pureVars, locks>>

SendQuitToSession(t, id) ==
    /\ ~Busy(t)
    /\ chan' = IF id \in DOMAIN SESSIONS /\ SESSIONS[id].stdin_sender # None
               THEN ChanAfterSend(SESSIONS[id].stdin_sender[1],
                                  QuitLine(SESSIONS[id].session.agent))
               ELSE chan
    /\ chan' # chan => Len(chan[SESSIONS[id].stdin_sender[1]].msgs) < MaxQuits
    /\ tasks' = [Fresh(t) EXCEPT ![t].op = "send_quit", ![t].pc = "done", ![t].sid = id,
                              ![t].ret = SendQuitResult(id)]
    /\ UNCHANGED <<SESSIONS, SESSION_INDEX, process, child, dropPending, now, launchVars, pureVars, locks>>

\* the registry commands, one at a time, with registrations, the input channels'
\* readers and the drop cleanup tasks running concurrently; the clock stands still
Next ==
    \/ \E id \in SessionIds, r \in Launches :
          Register(id, r.agent, r.working_dir, r.stdin)
    \/ \E h \in Handles : ReceiverDropped(h)
    \/ \E h \in Handles : DropCleanup(h)
    \/ \E t \in Tasks, id \in SessionIds : TerminateById(t, id)
    \/ \E t \in Tasks : TerminateIndex(t)
    \/ \E t \in Tasks : TerminateQuit(t)
    \/ \E t \in Tasks : TerminateGrace(t)
    \/ \E t \in Tasks : TerminateKill(t)
    \/ \E t \in Tasks : TerminateAllStart(t)
    \/ \E t \in Tasks : LoopNext(t)
    \/ \E t \in Tasks : GetSessionsStatus(t)
    \/ \E t \in Tasks, id \in SessionIds : SendQuitToSession(t, id)

Spec == Init /\ [][Next]_vars

\* the operations that change the registry, with the clock running
NextSweep ==
    \/ \E id \in SessionIds, r \in Launches :
          Register(id, r.agent, r.working_dir, r.stdin)
    \/ Tick
    \/ \E h \in Handles : DropCleanup(h)
    \/ \E t \in Tasks, id \in SessionIds : TerminateById(t, id)
    \/ \E t \in Tasks : TerminateIndex(t)
    \/ \E t \in Tasks : TerminateQuit(t)
    \/ \E t \in Tasks : TerminateGrace(t)
    \/ \E t \in Tasks : TerminateKill(t)
    \/ \E t \in Tasks : TerminateAllStart(t)
    \/ \E t \in Tasks : CleanupStart(t)
    \/ \E t \in Tasks : CleanupScan(t)
    \/ \E t \in Tasks : LoopNext(t)

SpecSweep == Init /\ [][NextSweep]_vars

\* terminate-all called by "t1" while "t2" calls terminate-by-id, with registrations
\* and the drop cleanup tasks running concurrently
NextConcurrent ==
    \/ \E id \in SessionIds, r \in Launches :
          Register(id, r.agent, r.working_dir, r.stdin)
    \/ \E h \in Handles : DropCleanup(h)
    \/ TerminateAllStart("t1")
    \/ LoopNext("t1")
    \/ \E id \in SessionIds : TerminateById("t2", id)
    \/ \E t \in Callers : TerminateIndex(t)
    \/ \E t \in Callers : TerminateQuit(t)
    \/ \E t \in Callers : TerminateGrace(t)
    \/ \E t \in Callers : TerminateKill(t)

SpecConcurrent == Init /\ [][NextConcurrent]_vars

\* sessions destroyed by terminate-by-id and by other means
NextDrop ==
    \/ \E id \in SessionIds, r \in Launches :
          Register(id, r.agent, r.working_dir, r.stdin)
    \/ \E id \in SessionIds : DropEntry(id)
    \/ \E h \in Handles : DropCleanup(h)
    \/ \E t \in Tasks, id \in SessionIds : TerminateById(t, id)
    \/ \E t \in Tasks : TerminateIndex(t)
    \/ \E t \in Tasks : TerminateQuit(t)
    \/ \E t \in Tasks : TerminateGrace(t)
    \/ \E t \in Tasks : TerminateKill(t)

SpecDrop == Init /\ [][NextDrop]_vars

\* the runtime schedules every spawned cleanup task
FairSpecDrop == SpecDrop /\ \A h \in Handles : WF_vars(DropCleanup(h))

(***************************************************************************)
(* One launch: execute_persistent_cli_command.  agent_name is the agent the  *)
(* command structure parser resolved.  The PTY child, the piped child and    *)
(* the two line readers of the piped strategy run beside the launch task.    *)
(***************************************************************************)
Chunk(sid, kind, text, line, finished) ==
    [session_id |-> sid, content |-> [kind |-> kind, text |-> text, line |-> line],
     finished |-> finished]

\* the same guidance for every agent
InstallInstructionsGeneric(agent_name) ==
    "Please check the official documentation for installation instructions.\n"

\* let install_instructions = match agent_name.as_str() { .. }
InstallInstructions(agent_name) ==
    CASE agent_name = "claude" ->
            "Install Claude CLI: https://docs.anthropic.com/claude/docs/cli\n"
      [] agent_name = "codex" ->
            "Install GitHub Copilot CLI: https://github.com/features/copilot\n"
      [] agent_name = "gemini" ->
            "Install Gemini CLI: https://cloud.google.com/sdk/docs/install\n"
      [] OTHER ->
            "Please check the official documentation for installation instructions.\n"

\* a launch that reports a failure to its caller
LaunchResultErr == "Command not found"

\* Ok(()) after tokio::spawn of the background task
LaunchResult == "Ok"

\* the background task at its first statement, and what the command has returned
LaunchTask(command, sid, agent_name, wd) ==
    [NoLaunch EXCEPT !.pc = "info", !.command = command, !.session_id = sid,
                     !.agent = agent_name, !.working_dir = wd,
                     !.returned = LaunchResult]

\* the command returns as soon as the background task is spawned
ExecutePersistentCliCommand(sid, agent_name, wd) ==
    /\ launch.pc = "none"
    /\ launch' = LaunchTask("execute_persistent_cli_command", sid, agent_name, wd)
    /\ UNCHANGED <<emitted, regVars, pureVars, locks>>

\* execute_claude_command, execute_codex_command, execute_gemini_command: the
\* result of execute_persistent_cli_command for the wrapper's agent
ExecuteAgentCommand(agent_name, sid, wd) ==
    /\ launch.pc = "none"
    /\ agent_name \in {"claude", "codex", "gemini"}
    /\ launch' = LaunchTask("execute_" \o agent_name \o "_command", sid, agent_name, wd)
    /\ UNCHANGED <<emitted, regVars, pureVars, locks>>

\* execute_cli_command (legacy): the command is passed as the agent
ExecuteCliCommand(sid, command, wd) ==
    /\ launch.pc = "none"
    /\ launch' = LaunchTask("execute_cli_command", sid, command, wd)
    /\ UNCHANGED <<emitted, regVars, pureVars, locks>>

\* the session status info chunk
EmitInfo ==
    /\ launch.pc = "info"
    /\ emitted' = Append(emitted,
                         Chunk(launch.session_id, "info", launch.agent, 0, FALSE))
    /\ launch' = [launch EXCEPT !.pc = "gate"]
    /\ UNCHANGED <<regVars, pureVars, locks>>

\* a gate that marks both of its chunks final
GateChunksBothFinal ==
    <<Chunk(launch.session_id, "not_found", launch.agent, 0, TRUE),
      Chunk(launch.session_id, "install", InstallInstructions(launch.agent), 0, TRUE)>>

\* !check_command_available(&agent_name): the two chunks, then return
GateChunks ==
    <<Chunk(launch.session_id, "not_found", launch.agent, 0, FALSE),
      Chunk(launch.session_id, "install", InstallInstructions(launch.agent), 0, TRUE)>>

GateUnavailable ==
    /\ launch.pc = "gate"
    /\ emitted' = emitted \o GateChunks
    /\ launch' = [launch EXCEPT !.pc = "done", !.gate = "unavailable"]
    /\ UNCHANGED <<regVars, pureVars, locks>>

\* a launch that tries the PTY whatever the working directory
StrategyPtyFirst(working_dir) == "pty_open"

\* the arguments are built and the program resolved; the spawn strategy is chosen
Strategy(working_dir) == IF working_dir = None THEN "pty_open" ELSE "pipe_spawn"

GateAvailable ==
    /\ launch.pc = "gate"
    /\ launch' = [launch EXCEPT !.pc = Strategy(launch.working_dir),
                                !.gate = "available"]
    /\ UNCHANGED <<emitted, regVars, pureVars, locks>>

(***************************************************************************)
(* try_spawn_with_pty                                                       *)
(***************************************************************************)
\* openpty, spawn_command or try_clone_reader fails, or the blocking task cannot be
\* joined: the closure returns Err and the caller falls back
PtyFail(stage) ==
    /\ \/ launch.pc = "pty_open" /\ stage \in {"open", "join"}
       \/ launch.pc = "pty_spawn" /\ stage = "spawn"
       \/ launch.pc = "pty_clone" /\ stage = "clone"
    /\ launch' = [launch EXCEPT !.pc = "fallback", !.ptyErr = stage]
    /\ UNCHANGED <<emitted, regVars, pureVars, locks>>

PtyOpenOk ==
    /\ launch.pc = "pty_open"
    /\ launch' = [launch EXCEPT !.pc = "pty_spawn"]
    /\ UNCHANGED <<emitted, regVars, pureVars, locks>>

PtySpawnOk ==
    /\ launch.pc = "pty_spawn"
    /\ launch' = [launch EXCEPT !.pc = "pty_clone", !.ptyChild = "running"]
    /\ UNCHANGED <<emitted, regVars, pureVars, locks>>

PtyCloneOk ==
    /\ launch.pc = "pty_clone"
    /\ launch' = [launch EXCEPT !.pc = "pty_read"]
    /\ UNCHANGED <<emitted, regVars, pureVars, locks>>

\* the child in the PTY writes output, and exits with or without success
PtyChildWrite ==
    /\ launch.ptyChild = "running"
    /\ launch.ptyWritten < MaxPtyReads
    /\ launch' = [launch EXCEPT !.ptyBuf = @ + 1, !.ptyWritten = @ + 1]
    /\ UNCHANGED <<emitted, regVars, pureVars, locks>>

PtyChildExit(status) ==
    /\ launch.ptyChild = "running"
    /\ launch' = [launch EXCEPT !.ptyChild = status]
    /\ UNCHANGED <<emitted, regVars, pureVars, locks>>

\* Ok(n): one chunk per read
PtyReadData ==
    /\ launch.pc = "pty_read"
    /\ launch.ptyBuf > 0
    /\ emitted' = Append(emitted, Chunk(launch.session_id, "pty", "",
                                        launch.ptyWritten - launch.ptyBuf + 1, FALSE))
    /\ launch' = [launch EXCEPT !.ptyBuf = @ - 1]
    /\ UNCHANGED <<regVars, pureVars, locks>>

\* Ok(0): the output is read and the child is gone
PtyReadEof ==
    /\ launch.pc = "pty_read"
    /\ launch.ptyBuf = 0
    /\ launch.ptyChild # "running"
    /\ launch' = [launch EXCEPT !.pc = "pty_wait"]
    /\ UNCHANGED <<emitted, regVars, pureVars, locks>>

\* Err(e): the read error chunk, then break
PtyReadErr ==
    /\ launch.pc = "pty_read"
    /\ emitted' = Append(emitted,
                         Chunk(launch.session_id, "pty_read_error", "", 0, FALSE))
    /\ launch' = [launch EXCEPT !.pc = "pty_wait"]
    /\ UNCHANGED <<regVars, pureVars, locks>>

\* child.wait() returns the status: the final chunk
PtyFinalChunks ==
    <<Chunk(launch.session_id,
            IF launch.ptyChild = "exit0" THEN "completed" ELSE "failed", "", 0, TRUE)>>

PtyWaitOk ==
    /\ launch.pc = "pty_wait"
    /\ launch.ptyChild \in {"exit0", "exit1"}
    /\ emitted' = emitted \o PtyFinalChunks
    /\ launch' = [launch EXCEPT !.pc = "done", !.waited = "pty_ok"]
    /\ UNCHANGED <<regVars, pureVars, locks>>

\* child.wait() fails (a child that is no longer there to wait for): Err, no chunk
PtyWaitErr ==
    /\ launch.pc = "pty_wait"
    /\ launch.ptyChild \in {"exit0", "exit1"}
    /\ launch' = [launch EXCEPT !.pc = "fallback", !.ptyErr = "wait"]
    /\ UNCHANGED <<emitted, regVars, pureVars, locks>>

\* a fallback without its notice
FallbackSilent == <<>>

\* if let Err(e) = try_spawn_with_pty(..): the fallback notice
FallbackChunks ==
    <<Chunk(launch.session_id, "pty_unavailable", launch.ptyErr, 0, FALSE)>>

Fallback ==
    /\ launch.pc = "fallback"
    /\ emitted' = emitted \o FallbackChunks
    /\ launch' = [launch EXCEPT !.pc = "pipe_spawn"]
    /\ UNCHANGED <<regVars, pureVars, locks>>

(***************************************************************************)
(* The piped strategy                                                       *)
(***************************************************************************)
\* if let Some(dir) = &working_dir { cmd.current_dir(dir) }: None is the default
PipeCwd(working_dir) == working_dir

\* cmd.spawn() is Ok: the stdout and the stderr reader tasks are spawned
PipeSpawnOk ==
    /\ launch.pc = "pipe_spawn"
    /\ launch' = [launch EXCEPT !.pc = "wait", !.pipeChild = "running",
                                !.pipeCwd = PipeCwd(launch.working_dir),
                                !.stdoutReader = "reading", !.stderrReader = "reading"]
    /\ UNCHANGED <<emitted, regVars, pureVars, locks>>

\* cmd.spawn() is Err: the error chunk is the final chunk
SpawnErrChunks == <<Chunk(launch.session_id, "spawn_error", launch.agent, 0, TRUE)>>

PipeSpawnErr ==
    /\ launch.pc = "pipe_spawn"
    /\ emitted' = emitted \o SpawnErrChunks
    /\ launch' = [launch EXCEPT !.pc = "done", !.spawnErr = TRUE]
    /\ UNCHANGED <<regVars, pureVars, locks>>

\* the child writes a line to stdout or to stderr, and exits
PipeChildWriteOut(max) ==
    /\ launch.pipeChild = "running"
    /\ launch.stdoutWritten < max
    /\ launch' = [launch EXCEPT !.stdoutBuf = Append(@, launch.stdoutWritten + 1),
                                !.stdoutWritten = @ + 1]
    /\ UNCHANGED <<emitted, regVars, pureVars, locks>>

PipeChildWriteErr(max) ==
    /\ launch.pipeChild = "running"
    /\ launch.stderrWritten < max
    /\ launch' = [launch EXCEPT !.stderrBuf = Append(@, launch.stderrWritten + 1),
                                !.stderrWritten = @ + 1]
    /\ UNCHANGED <<emitted, regVars, pureVars, locks>>

PipeChildExit(status) ==
    /\ launch.pipeChild = "running"
    /\ launch' = [launch EXCEPT !.pipeChild = status]
    /\ UNCHANGED <<emitted, regVars, pureVars, locks>>

\* while let Ok(Some(line)) = lines.next_line().await { emit }
\* a reader that hands out the newest line in the pipe
NewestLine(buf) == buf[Len(buf)]

\* lines.next_line(): the oldest line in the pipe
NextLine(buf) == Head(buf)

ReadStdout ==
    /\ launch.stdoutReader = "reading"
    /\ launch.stdoutBuf # <<>>
    /\ emitted' = Append(emitted, Chunk(launch.session_id, "stdout", "",
                                        NextLine(launch.stdoutBuf), FALSE))
    /\ launch' = [launch EXCEPT !.stdoutBuf = Tail(@)]
    /\ UNCHANGED <<regVars, pureVars, locks>>

ReadStderr ==
    /\ launch.stderrReader = "reading"
    /\ launch.stderrBuf # <<>>
    /\ emitted' = Append(emitted, Chunk(launch.session_id, "stderr", "ERROR: ",
                                        NextLine(launch.stderrBuf), FALSE))
    /\ launch' = [launch EXCEPT !.stderrBuf = Tail(@)]
    /\ UNCHANGED <<regVars, pureVars, locks>>

\* Ok(None) once the pipe is closed and drained, or Err(_) on any read: the task ends
StdoutReaderEnds ==
    /\ launch.stdoutReader = "reading"
    /\ launch.stdoutBuf = <<>> => launch.pipeChild # "running"
    /\ launch' = [launch EXCEPT !.stdoutReader = "ended"]
    /\ UNCHANGED <<emitted, regVars, pureVars, locks>>

StderrReaderEnds ==
    /\ launch.stderrReader = "reading"
    /\ launch.stderrBuf = <<>> => launch.pipeChild # "running"
    /\ launch' = [launch EXCEPT !.stderrReader = "ended"]
    /\ UNCHANGED <<emitted, regVars, pureVars, locks>>

\* child.wait().await is Ok(status): the final chunk
PipeFinalChunks ==
    <<Chunk(launch.session_id,
            IF launch.pipeChild = "exit0" THEN "completed" ELSE "failed_with_code",
            "", 0, TRUE)>>

\* child.wait().await needs the child to have exited
PipeWaitReady == launch.pipeChild \in {"exit0", "exit1"}

PipeWaitOk ==
    /\ launch.pc = "wait"
    /\ PipeWaitReady
    /\ emitted' = emitted \o PipeFinalChunks
    /\ launch' = [launch EXCEPT !.pc = "done", !.waited = "ok"]
    /\ UNCHANGED <<regVars, pureVars, locks>>

\* child.wait().await is Err(e): the process error chunk is the final chunk
PipeWaitErrChunks == <<Chunk(launch.session_id, "process_error", "", 0, TRUE)>>

PipeWaitErr ==
    /\ launch.pc = "wait"
    /\ PipeWaitReady
    /\ emitted' = emitted \o PipeWaitErrChunks
    /\ launch' = [launch EXCEPT !.pc = "done", !.waited = "err"]
    /\ UNCHANGED <<regVars, pureVars, locks>>

\* the steps of the launch task itself
LaunchStep ==
    \/ EmitInfo
    \/ GateUnavailable
    \/ GateAvailable
    \/ \E stage \in {"open", "join", "spawn", "clone"} : PtyFail(stage)
    \/ PtyOpenOk
    \/ PtySpawnOk
    \/ PtyCloneOk
    \/ PtyReadData
    \/ PtyReadEof
    \/ PtyReadErr
    \/ PtyWaitOk
    \/ PtyWaitErr
    \/ Fallback
    \/ PipeSpawnOk
    \/ PipeSpawnErr
    \/ PipeWaitOk
    \/ PipeWaitErr

\* the children and the reader tasks
LaunchEnv ==
    \/ PtyChildWrite
    \/ \E status \in {"exit0", "exit1"} : PtyChildExit(status)
    \/ PipeChildWriteOut(MaxLines)
    \/ PipeChildWriteErr(MaxLines)
    \/ \E status \in {"exit0", "exit1"} : PipeChildExit(status)
    \/ ReadStdout
    \/ ReadStderr
    \/ StdoutReaderEnds
    \/ StderrReaderEnds

\* the launch requests tried: each agent, with and without a working directory,
\* through execute_persistent_cli_command, an agent's wrapper or the legacy command
LaunchRequests ==
    {[session_id |-> "s1", agent |-> "claude", working_dir |-> None],
     [session_id |-> "s2", agent |-> "test", working_dir |-> Some("/w")]}

WrapperRequests ==
    {[session_id |-> "s1", agent |-> "codex", working_dir |-> Some("/w")],
     [session_id |-> "s2", agent |-> "gemini", working_dir |-> None]}

LegacyRequests ==
    {[session_id |-> "s1", agent |-> "claude", working_dir |-> Some("/w")]}

\* one launch, with status enumeration and terminate-by-id of its session id
\* called while a child of the launch runs
NextLaunch ==
    \/ \E r \in LaunchRequests :
          ExecutePersistentCliCommand(r.session_id, r.agent, r.working_dir)
    \/ \E r \in WrapperRequests :
          ExecuteAgentCommand(r.agent, r.session_id, r.working_dir)
    \/ \E r \in LegacyRequests :
          ExecuteCliCommand(r.session_id, r.agent, r.working_dir)
    \/ LaunchStep
    \/ LaunchEnv
    \/ \E t \in Tasks :
          (launch.ptyChild = "running" \/ launch.pipeChild = "running")
          /\ GetSessionsStatus(t)
    \/ \E t \in Tasks :
          (launch.ptyChild = "running" \/ launch.pipeChild = "running")
          /\ TerminateById(t, launch.session_id)

SpecLaunch == Init /\ [][NextLaunch]_vars

\* the piped strategy alone: a launch with a working directory, whose child writes
\* several lines to stdout
NextPipes ==
    \/ ExecutePersistentCliCommand("s1", "codex", Some("/w"))
    \/ EmitInfo
    \/ GateAvailable
    \/ PipeSpawnOk
    \/ PipeChildWriteOut(MaxOrderedLines)
    \/ PipeChildWriteErr(MaxLines)
    \/ \E status \in {"exit0", "exit1"} : PipeChildExit(status)
    \/ ReadStdout
    \/ ReadStderr
    \/ StdoutReaderEnds
    \/ StderrReaderEnds
    \/ PipeWaitOk
    \/ PipeWaitErr

SpecPipes == Init /\ [][NextPipes]_vars

\* the launch task and the reader tasks are scheduled, and a spawned child exits
FairSpecLaunch ==
    /\ SpecLaunch
    /\ WF_vars(LaunchStep)
    /\ WF_vars(\E status \in {"exit0", "exit1"} : PtyChildExit(status))
    /\ WF_vars(\E status \in {"exit0", "exit1"} : PipeChildExit(status))

(***************************************************************************)
(* Registry claims                                                          *)
(***************************************************************************)
Quiescent == \A t \in Callers : ~Busy(t)
KeyOf(s) == generate_session_key(s.session.agent, s.session.working_dir)

C2_RemovalIsOneCriticalSection ==
    \A t \in Tasks :
        tasks[t].session # None =>
            LET s == tasks[t].session[1] IN
            ~ (/\ s.session.id \notin DOMAIN SESSIONS
               /\ KeyOf(s) \in DOMAIN SESSION_INDEX
               /\ SESSION_INDEX[KeyOf(s)] = s.session.id)

\* C7: a terminate call on a registered session removes it from both maps, then,
\* if and only if the session has an input channel, sends the quit directive and
\* waits the grace period, then attempts the kill; the handle is untouched until
\* both removals are done.
ExpectedLog(pc, stdin) ==
    CASE pc = "index" -> <<"remove_sessions">>
      [] pc = "quit" -> <<"remove_sessions", "remove_index">>
      [] pc = "sleep" -> <<"remove_sessions", "remove_index", "send_quit">>
      [] pc = "kill" ->
            IF stdin
            THEN <<"remove_sessions", "remove_index", "send_quit", "grace">>
            ELSE <<"remove_sessions", "remove_index">>
      [] OTHER -> <<>>

C7_TerminateOrder ==
    \A t \in Tasks :
        /\ tasks[t].session # None =>
             LET s == tasks[t].session[1] IN
             /\ tasks[t].log = ExpectedLog(tasks[t].pc, s.stdin_sender # None)
             /\ tasks[t].pc \in {"quit", "sleep"} => s.stdin_sender # None
             /\ tasks[t].pc = "index" => process[s.process] = "Some"
             /\ tasks[t].pc # "index" =>
                    ~ (KeyOf(s) \in DOMAIN SESSION_INDEX
                       /\ SESSION_INDEX[KeyOf(s)] = s.session.id
                       /\ s.session.id \notin DOMAIN SESSIONS)
        /\ (tasks[t].session = None /\ tasks[t].log # <<>>) =>
             /\ tasks[t].log \in
                  {<<"remove_sessions", "remove_index", "send_quit", "grace", "kill">>,
                   <<"remove_sessions", "remove_index", "kill">>}
             /\ \A h \in tasks[t].removed : process[h] = "None"

\* a terminate-by-id of a session with an input channel has returned
C7_Witness ==
    /\ tasks["t1"].op = "terminate" /\ tasks["t1"].pc = "done"
    /\ tasks["t1"].log =
         <<"remove_sessions", "remove_index", "send_quit", "grace", "kill">>

\* C8: terminate-by-id with an id that is not a key of SESSIONS returns success and
\* leaves SESSIONS, SESSION_INDEX, every input channel and every process handle
\* unchanged.
TerminateUnknownStep(t) ==
    /\ ~Busy(t)
    /\ tasks'[t] # tasks[t]
    /\ tasks'[t].op = "terminate"
    /\ tasks'[t].sid \notin DOMAIN SESSIONS

C8_TerminateUnknownIsNoOp ==
    [][\A t \in Tasks :
          TerminateUnknownStep(t) =>
              /\ tasks'[t].pc = "done" /\ tasks'[t].ret = "Ok"
              /\ UNCHANGED <<SESSIONS, SESSION_INDEX, chan, process, child, dropPending>>]_vars

\* terminate-by-id of an unregistered id has returned while a session is registered
C8_Witness ==
    /\ tasks["t1"].op = "terminate" /\ tasks["t1"].pc = "done"
    /\ tasks["t1"].removed = {} /\ tasks["t1"].ret = "Ok"
    /\ tasks["t1"].sid \notin DOMAIN SESSIONS
    /\ DOMAIN SESSIONS # {}

\* C9: send-quit returns 'Session not found' for an id that is not in SESSIONS and
\* 'Session stdin not available' for a session without input channel; it returns
\* success only when the quit directive was put on the session's channel; it never
\* changes SESSIONS or SESSION_INDEX.
SendQuitStep(t) ==
    /\ ~Busy(t)
    /\ \A u \in Tasks \ {t} : tasks'[u] = tasks[u]
    /\ tasks'[t].op = "send_quit"
    /\ \/ tasks'[t] # tasks[t]
       \/ \E h \in DOMAIN chan : Len(chan'[h].msgs) > Len(chan[h].msgs)

C9_SendQuitErrors ==
    [][\A t \in Tasks :
          SendQuitStep(t) =>
              LET id == tasks'[t].sid
                  r == tasks'[t].ret
              IN  /\ (r = "Session not found") <=> (id \notin DOMAIN SESSIONS)
                  /\ (r = "Session stdin not available") <=>
                        (id \in DOMAIN SESSIONS /\ SESSIONS[id].stdin_sender = None)
                  /\ r = "Ok" =>
                        /\ id \in DOMAIN SESSIONS
                        /\ SESSIONS[id].stdin_sender # None
                        /\ LET h == SESSIONS[id].stdin_sender[1] IN
                           chan'[h].msgs =
                              Append(chan[h].msgs, QuitLine(SESSIONS[id].session.agent))
                  /\ r # "Ok" => chan' = chan
                  /\ UNCHANGED <<SESSIONS, SESSION_INDEX>>]_vars

\* send-quit on a registered session without input channel has returned its error
C9_Witness ==
    /\ tasks["t1"].op = "send_quit" /\ tasks["t1"].pc = "done"
    /\ tasks["t1"].ret = "Session stdin not available"
    /\ tasks["t1"].sid \in DOMAIN SESSIONS

\* C10: a sweep pass terminates a registered session if and only if, at its scan,
\* current time - last_activity is strictly greater than 1800: a session at 1800 or
\* less is not removed by the pass and is still registered after it, a session at
\* 1801 or more is in neither map after it.
C10_SweepThreshold ==
    \A t \in Tasks :
        tasks[t].op = "cleanup" /\ tasks[t].pc # "scan" =>
            /\ \A s \in tasks[t].young : s.process \notin tasks[t].removed
            /\ tasks[t].pc = "done" =>
                 /\ \A s \in tasks[t].young :
                       /\ s.session.id \in DOMAIN SESSIONS
                       /\ SESSIONS[s.session.id] = s
                 /\ \A s \in tasks[t].old :
                       /\ s.process \in tasks[t].removed
                       /\ \A id \in DOMAIN SESSIONS : SESSIONS[id] # s
                       /\ ~ (/\ KeyOf(s) \in DOMAIN SESSION_INDEX
                             /\ SESSION_INDEX[KeyOf(s)] = s.session.id
                             /\ s.session.id \notin DOMAIN SESSIONS)

\* a pass has completed that found one session exactly 1800 s idle and kept it, and
\* one session 1801 s or more idle and removed it
C10_Witness ==
    /\ tasks["t1"].op = "cleanup" /\ tasks["t1"].pc = "done"
    /\ tasks["t1"].old # {}
    /\ \E s \in tasks["t1"].young :
          tasks["t1"].time - s.session.last_activity = SESSION_TIMEOUT_SECONDS

(***************************************************************************)
(* Launch claims                                                            *)
(***************************************************************************)
FinishedCount == Cardinality({i \in DOMAIN emitted : emitted[i].finished})

LaunchChildRunning == launch.ptyChild = "running" \/ launch.pipeChild = "running"

\* C3: within one launch no finished=false chunk (a stdout line, a stderr line,
\* a PTY read) is emitted after the finished=true chunk of the session id.
C3_FinishedChunkIsTerminal ==
    \A i, j \in DOMAIN emitted :
        (i < j /\ emitted[i].finished) => emitted[j].finished

C5_FinalChunkOnlyAfterExit == FinishedCount > 0 => ~LaunchChildRunning

\* C6: while a child process spawned by a launch runs, the registry holds a
\* session under the launch's session id and the index a key pointing to it.
C6_SpawnedLaunchIsRegistered ==
    LaunchChildRunning =>
        /\ launch.session_id \in DOMAIN SESSIONS
        /\ \E k \in DOMAIN SESSION_INDEX : SESSION_INDEX[k] = launch.session_id

(***************************************************************************)
(* Terminate-all and the drop cleanup                                       *)
(***************************************************************************)
\* the session s is gone from SESSIONS, and SESSION_INDEX does not keep its key for
\* its id
Unregistered(s) ==
    /\ \A id \in DOMAIN SESSIONS : SESSIONS[id] # s
    /\ ~ (/\ KeyOf(s) \in DOMAIN SESSION_INDEX
          /\ SESSION_INDEX[KeyOf(s)] = s.session.id
          /\ s.session.id \notin DOMAIN SESSIONS)

TerminateAllReturned == tasks["t1"].op = "terminate_all" /\ tasks["t1"].pc = "done"

\* C11: once terminate-all has returned, every session whose id was in
\* the snapshot is absent from both maps and has had its kill attempted, and the
\* operation returned success.
C11_TerminateAll ==
    TerminateAllReturned =>
        /\ tasks["t1"].ret = "Ok"
        /\ \A s \in tasks["t1"].snap :
              Unregistered(s) /\ process[s.process] = "None"

\* the ActiveSession holding the handle h is destroyed: neither SESSIONS nor a
\* terminate call in progress holds it
Destroyed(h) ==
    /\ h \in DOMAIN process
    /\ \A id \in DOMAIN SESSIONS : SESSIONS[id].process # h
    /\ \A u \in Callers : tasks[u].session # None => tasks[u].session[1].process # h

\* the ActiveSession of h is destroyed with the process handle still present
DroppedWithProcess(h) == Destroyed(h) /\ process[h] = "Some"

\* the process handle of h has been taken, and killed if it was there
ProcessTaken(h) == h \in DOMAIN process /\ process[h] = "None"

\* C12: when an ActiveSession is destroyed while its process handle is still
\* present, its cleanup task is pending, and eventually the handle has been taken
\* and the kill attempted.
C12_DropCleanup ==
    \A h \in Handles :
        /\ [](DroppedWithProcess(h) => h \in dropPending)
        /\ DroppedWithProcess(h) ~> ProcessTaken(h)

\* a session dropped without termination has had its running process killed by the
\* cleanup task
C12_Witness ==
    \E h \in DOMAIN process :
        /\ Destroyed(h)
        /\ process[h] = "None" /\ child[h] = "killed"
        /\ h \notin dropPending
        /\ \A u \in Callers : h \notin tasks[u].removed

(***************************************************************************)
(* Spawn strategy                                                           *)
(***************************************************************************)
PtyAttempted ==
    \/ launch.pc \in {"pty_open", "pty_spawn", "pty_clone", "pty_read", "pty_wait",
                      "fallback"}
    \/ launch.ptyErr # ""
    \/ launch.ptyChild # "none"
    \/ launch.waited = "pty_ok"

PipeAttempted ==
    \/ launch.pc \in {"pipe_spawn", "wait"}
    \/ launch.pipeChild # "none"
    \/ launch.spawnErr

\* cmd.spawn() of the piped strategy has returned
PipeRun == launch.pipeChild # "none" \/ launch.spawnErr

ChunksOfKind(kind) == {i \in DOMAIN emitted : emitted[i].content.kind = kind}

\* C13: a launch that carries a working directory never attempts the PTY strategy;
\* its process is spawned through the piped strategy only, with that directory as
\* its current directory.
C13_WorkingDirUsesPipes ==
    launch.working_dir # None =>
        /\ ~PtyAttempted
        /\ launch.pipeChild # "none" => launch.pipeCwd = launch.working_dir

\* the child of a launch with a working directory runs, spawned with pipes
C13_Witness ==
    /\ launch.working_dir = Some("/w")
    /\ launch.pipeChild = "running"
    /\ launch.pipeCwd = Some("/w")

\* the checks common to both readings of C14, for a launch without working
\* directory that passed the gate; failed tells whether the PTY attempt failed
StrategyOrder(failed) ==
    (launch.working_dir = None /\ launch.gate = "available") =>
        /\ PipeAttempted => failed
        /\ launch.pc = "done" /\ failed =>
              /\ PipeRun
              /\ Cardinality(ChunksOfKind("pty_unavailable")) = 1
              /\ \A i \in ChunksOfKind("pty_unavailable") : ~emitted[i].finished
        /\ launch.waited = "pty_ok" => ~PipeAttempted

\* C14: without working directory the PTY strategy is attempted first; if it fails
\* (to open, to spawn, or to read) one finished=false diagnostic chunk is emitted
\* and the piped strategy is run; if it succeeds the piped strategy is not run.
C14_PtyFirstThenPipes ==
    StrategyOrder(launch.ptyErr # "" \/ ChunksOfKind("pty_read_error") # {})

\* C14, amended: the PTY attempt fails when try_spawn_with_pty returns an error (the
\* PTY does not open, the spawn in it fails, its reader cannot be cloned, the wait
\* for the child fails or the blocking task cannot be joined); a PTY read error is
\* no such failure: after it the PTY strategy ends the launch and the piped strategy
\* is not run.
C14_PtyErrThenPipes ==
    /\ StrategyOrder(launch.ptyErr # "")
    /\ ~PipeAttempted => ChunksOfKind("pty_unavailable") = {}
    /\ (ChunksOfKind("pty_read_error") # {} /\ launch.ptyErr = "") => ~PipeAttempted

\* a launch whose PTY could not clone its reader ended through the piped strategy
C14_Witness ==
    /\ launch.pc = "done"
    /\ launch.working_dir = None
    /\ launch.ptyErr = "clone"
    /\ launch.waited = "ok"
    /\ Cardinality(ChunksOfKind("pty_unavailable")) = 1

(***************************************************************************)
(* Availability gate and the result of a launch request                     *)
(***************************************************************************)
\* the guidance each known agent gets, and the one any other agent gets
ExpectedGuidance ==
    [claude |-> "Install Claude CLI: https://docs.anthropic.com/claude/docs/cli\n",
     codex |-> "Install GitHub Copilot CLI: https://github.com/features/copilot\n",
     gemini |-> "Install Gemini CLI: https://cloud.google.com/sdk/docs/install\n"]

GenericGuidance ==
    "Please check the official documentation for installation instructions.\n"

\* C15: when the agent's executable is not resolvable, the launch emits a
\* finished=false chunk naming the missing command, then a finished=true chunk with
\* the agent's installation guidance, nothing after it, and spawns no process.
C15_GateUnavailable ==
    launch.gate = "unavailable" =>
        /\ launch.pc = "done"
        /\ Len(emitted) = 3
        /\ emitted[2].content.kind = "not_found"
        /\ emitted[2].content.text = launch.agent
        /\ ~emitted[2].finished
        /\ emitted[3].finished
        /\ emitted[3].content.text =
              IF launch.agent \in DOMAIN ExpectedGuidance
              THEN ExpectedGuidance[launch.agent] ELSE GenericGuidance
        /\ ~PtyAttempted /\ ~PipeAttempted
        /\ launch.ptyChild = "none" /\ launch.pipeChild = "none"

\* the gate has turned down a launch of codex
C15_Witness ==
    /\ launch.gate = "unavailable"
    /\ launch.agent = "codex"
    /\ Len(emitted) = 3 /\ emitted[3].finished

\* C16: every launch command has returned success to its caller from the moment
\* its background task exists, before anything is emitted or spawned, and whatever
\* the gate, the spawn, the PTY or the wait then do.
C16_LaunchReturnsOk ==
    launch.pc # "none" =>
        /\ launch.returned = "Ok"
        /\ launch.command \in {"execute_persistent_cli_command", "execute_cli_command",
                               "execute_claude_command", "execute_codex_command",
                               "execute_gemini_command"}

\* a launch through an agent's wrapper whose PTY attempt failed and whose piped
\* spawn failed too
C16_Witness ==
    /\ launch.command = "execute_gemini_command"
    /\ launch.ptyErr # "" /\ launch.spawnErr
    /\ launch.returned = "Ok"

(***************************************************************************)
(* Order of the streamed lines                                              *)
(***************************************************************************)
\* the chunks of one stream carry its lines in the order they were written, each
\* line once (the child numbers the lines of a stream 1, 2, .. as it writes them)
InSourceOrder(kind) ==
    \A i, j \in ChunksOfKind(kind) :
        i < j => emitted[i].content.line < emitted[j].content.line

MaxMsgLen == 4             \* symbols of a message drawn from the whole alphabet
MaxRemLen == 3             \* symbols after "/agent " in the messages of that form

WhiteSpace == {" ", "\t"}
Alphabet == {"/", " ", "\t", "code", "claude", "Codex", "help"}
RemainderAlphabet == {"/", " ", "\t", "help", "are"}
Separators == {<<" ">>, <<"\t">>, <<" ", " ">>}
CurrentAgents == {"claude", "gemini"}

SeqsUpTo(S, n) == UNION {[1..k -> S] : k \in 0..n}

\* a parser that looks for an agent token in every message
AnyMessageIsCommand(message) == TRUE

\* message.starts_with('/')
StartsWithSlash(message) == message # <<>> /\ Head(message) = "/"

\* a parser that tokenizes the message with its slashes left in place
KeepSlashes(message) == message

\* message.trim_start_matches('/'): every leading '/' goes
RECURSIVE TrimStartSlashes(_)
TrimStartSlashes(message) ==
    IF message # <<>> /\ Head(message) = "/"
    THEN TrimStartSlashes(Tail(message)) ELSE message

\* split_whitespace(): the maximal runs of non-whitespace symbols, in order; word is
\* the run being read and parts the runs completed
RECURSIVE SplitFrom(_, _, _)
SplitFrom(rest, word, parts) ==
    LET done == IF word = <<>> THEN parts ELSE Append(parts, word) IN
    IF rest = <<>> THEN done
    ELSE IF Head(rest) \in WhiteSpace THEN SplitFrom(Tail(rest), <<>>, done)
    ELSE SplitFrom(Tail(rest), Append(word, Head(rest)), parts)

SplitWhitespace(text) == SplitFrom(text, <<>>, <<>>)

\* a join that leaves the separator out
RECURSIVE Concat(_, _)
Concat(parts, sep) ==
    IF parts = <<>> THEN <<>> ELSE Head(parts) \o Concat(Tail(parts), sep)

\* remaining_parts.join(" ")
RECURSIVE Join(_, _)
Join(parts, sep) ==
    IF parts = <<>> THEN <<>>
    ELSE IF Len(parts) = 1 THEN Head(parts)
    ELSE Head(parts) \o sep \o Join(Tail(parts), sep)

agent_or_aliases == {"claude", "codex", "gemini", "test", "code", "copilot"}

\* agent_or_aliases.contains(&parts[0])
IsAgentToken(word) == Len(word) = 1 /\ word[1] \in agent_or_aliases

\* a parser that keeps the alias as the agent
CanonicalAgentNoAlias(token) == token

\* "code" | "copilot" => "codex", other => other
CanonicalAgent(token) == IF token \in {"code", "copilot"} THEN "codex" ELSE token

\* formatted_command: either branch of the test on a leading '/' yields the command
FormattedCommand(command) == IF StartsWithSlash(command) THEN command ELSE command

parse_command_structure(agent, message) ==
    IF StartsWithSlash(message)
    THEN LET parts == SplitWhitespace(TrimStartSlashes(message)) IN
         IF parts = <<>>
         THEN [agent |-> agent, message |-> <<"help">>]
         ELSE IF IsAgentToken(parts[1])
              THEN LET actual_agent == CanonicalAgent(parts[1][1])
                       remaining_parts == Tail(parts)
                   IN  IF remaining_parts = <<>>
                       THEN [agent |-> actual_agent, message |-> <<>>]
                       ELSE [agent |-> actual_agent,
                             message |->
                                 FormattedCommand(Join(remaining_parts, <<" ">>))]
              ELSE [agent |-> agent, message |-> message]
    ELSE [agent |-> agent, message |-> message]

\* the messages of the form "/" token whitespace remainder
FormMessages ==
    {<<"/", token>> \o sep \o rem :
        token \in agent_or_aliases, sep \in Separators,
        rem \in SeqsUpTo(RemainderAlphabet, MaxRemLen)}

\* the messages of the unit tests
TestMessages ==
    {<<"/", "code", " ", "help">>,
     <<"/", "code", " ", "are", " ", "you", " ", "there?">>,
     <<"/", "codex", " ", "help">>}

Messages == SeqsUpTo(Alphabet, MaxMsgLen) \cup FormMessages \cup TestMessages

\* one call of the parser, on arguments chosen by the caller
ParseCommandStructure(agent, message) ==
    /\ parsed = None
    /\ parsed' = Some([agent |-> agent, message |-> message,
                       result |-> parse_command_structure(agent, message)])
    /\ UNCHANGED <<regVars, launchVars, acc, sanitized, built, recent, locks>>

NextParse ==
    /\ parsed = None
    /\ \E agent \in CurrentAgents, message \in Messages :
           ParseCommandStructure(agent, message)

SpecParse == Init /\ [][NextParse]_vars

(***************************************************************************)
(* Claims about parse_command_structure                                     *)
(***************************************************************************)
\* the message is "/" token whitespace remainder, token a known agent or alias
IsAgentForm(message) ==
    /\ Len(message) >= 3
    /\ message[1] = "/"
    /\ message[2] \in agent_or_aliases
    /\ message[3] \in WhiteSpace

\* the text that follows the agent token
AfterToken(message) == SubSeq(message, 3, Len(message))

RECURSIVE TrimLeadingWs(_)
TrimLeadingWs(text) ==
    IF text # <<>> /\ Head(text) \in WhiteSpace THEN TrimLeadingWs(Tail(text)) ELSE text

Reverse(text) == [i \in 1..Len(text) |-> text[Len(text) + 1 - i]]

\* the text without its leading and trailing whitespace
TrimWs(text) == Reverse(TrimLeadingWs(Reverse(TrimLeadingWs(text))))

\* the text with every run of whitespace replaced by one space
RECURSIVE CollapseWs(_)
CollapseWs(text) ==
    IF text = <<>> THEN <<>>
    ELSE IF Head(text) \in WhiteSpace
         THEN IF Tail(text) # <<>> /\ Head(Tail(text)) \in WhiteSpace
              THEN CollapseWs(Tail(text))
              ELSE <<" ">> \o CollapseWs(Tail(text))
         ELSE <<Head(text)>> \o CollapseWs(Tail(text))

\* C18: for a message "/" token whitespace remainder with token a known agent
\* (claude, codex, gemini, test) or alias (code, copilot), the parser returns the
\* canonical agent (code and copilot give codex, an agent gives itself) whatever the
\* current agent is, and as payload the whitespace-separated tokens of the remainder
\* joined by single spaces; with current agent claude, "/code help" gives
\* (codex, "help"), "/code are you there?" gives (codex, "are you there?") and
\* "/codex help" gives (codex, "help").
C18_AgentTokenForm ==
    parsed # None =>
        LET call == parsed[1] IN
        /\ IsAgentForm(call.message) =>
              /\ call.result.agent =
                    (IF call.message[2] \in {"code", "copilot"} THEN "codex"
                     ELSE call.message[2])
              /\ call.result.message =
                    Join(SplitWhitespace(AfterToken(call.message)), <<" ">>)
        /\ (call.agent = "claude" /\ call.message = <<"/", "code", " ", "help">>) =>
              call.result = [agent |-> "codex", message |-> <<"help">>]
        /\ (call.agent = "claude"
              /\ call.message = <<"/", "code", " ", "are", " ", "you", " ", "there?">>) =>
              call.result = [agent |-> "codex",
                             message |-> <<"are", " ", "you", " ", "there?">>]
        /\ (call.agent = "claude" /\ call.message = <<"/", "codex", " ", "help">>) =>
              call.result = [agent |-> "codex", message |-> <<"help">>]

\* an alias followed by free text was parsed while another agent was current
C18_Witness ==
    /\ parsed # None
    /\ parsed[1].agent = "claude"
    /\ parsed[1].message = <<"/", "code", " ", "are", " ", "you", " ", "there?">>
    /\ parsed[1].result.agent = "codex"
    /\ parsed[1].result.message = <<"are", " ", "you", " ", "there?">>

\* C19 as stated: for every known agent or alias token the returned payload is,
\* character for character, the text that follows the agent token (surrounding
\* whitespace aside), internal spacing included.
C19_PayloadVerbatim ==
    (parsed # None /\ IsAgentForm(parsed[1].message)) =>
        parsed[1].result.message = TrimWs(AfterToken(parsed[1].message))

\* C19 as amended: for every known agent or alias token the returned payload is the
\* text that follows the agent token with its leading and trailing whitespace
\* dropped and every internal run of whitespace replaced by one space; the other
\* characters are kept in order, and a remainder whose words are separated by single
\* spaces is returned verbatim.
C19_PayloadUpToSpacing ==
    (parsed # None /\ IsAgentForm(parsed[1].message)) =>
        LET rest == TrimWs(AfterToken(parsed[1].message))
            payload == parsed[1].result.message
        IN  /\ payload = CollapseWs(rest)
            /\ SelectSeq(payload, LAMBDA c : c \notin WhiteSpace)
                 = SelectSeq(rest, LAMBDA c : c \notin WhiteSpace)
            /\ (/\ \A i \in DOMAIN rest : rest[i] # "\t"
                /\ \A i \in 1..(Len(rest) - 1) : ~(rest[i] = " " /\ rest[i + 1] = " "))
               => payload = rest

\* a remainder whose words a tab separates came back with a single space
C19_Witness ==
    /\ parsed # None
    /\ parsed[1].message = <<"/", "copilot", " ", "help", "\t", "are">>
    /\ parsed[1].result.message = <<"help", " ", "are">>

\* C20: for a message that does not start with "/", the parser returns the current
\* agent and the message unchanged, whatever the message contains (agent names and
\* aliases included).
C20_NoSlashUnchanged ==
    (parsed # None /\ (parsed[1].message = <<>> \/ parsed[1].message[1] # "/")) =>
        parsed[1].result = [agent |-> parsed[1].agent, message |-> parsed[1].message]

\* a message that opens with an alias but no "/" came back unchanged
C20_Witness ==
    /\ parsed # None
    /\ parsed[1].agent = "claude"
    /\ parsed[1].message = <<"code", " ", "help">>
    /\ parsed[1].result = [agent |-> "claude", message |-> <<"code", " ", "help">>]

\* the tokens of the message once its first "/" is stripped
TokensAfterSlash(message) == SplitWhitespace(Tail(message))

\* C21: for a message that starts with "/" and whose first token after the slash is
\* not exactly (case-sensitively) a known agent name or alias, the parser returns the
\* current agent and the whole original message, leading "/" included; "/Codex help"
\* is treated this way.
C21_UnknownTokenUnchanged ==
    (/\ parsed # None
     /\ StartsWithSlash(parsed[1].message)
     /\ TokensAfterSlash(parsed[1].message) # <<>>
     /\ ~IsAgentToken(TokensAfterSlash(parsed[1].message)[1])) =>
        parsed[1].result = [agent |-> parsed[1].agent, message |-> parsed[1].message]

\* C22: only the first leading "/" is stripped before tokenizing, so a message with
\* several leading slashes followed by an agent name ("//codex help") is not resolved
\* to that agent: it comes back for the current agent, unchanged.
C22_OnlyFirstSlashStripped ==
    (/\ parsed # None
     /\ Len(parsed[1].message) >= 3
     /\ parsed[1].message[1] = "/"
     /\ parsed[1].message[2] = "/"
     /\ parsed[1].message[3] \in agent_or_aliases) =>
        parsed[1].result = [agent |-> parsed[1].agent, message |-> parsed[1].message]

\* C23: a message that is "/" followed by nothing or by whitespace only gives
\* (current agent, "help"); a message that is "/" and an agent or alias token with
\* nothing after it gives (canonical agent, empty payload).
C23_BareSlashAndBareAgent ==
    parsed # None =>
        LET call == parsed[1]
            after == IF call.message = <<>> THEN <<>> ELSE Tail(call.message)
        IN  /\ (StartsWithSlash(call.message)
                 /\ \A i \in DOMAIN after : after[i] \in WhiteSpace) =>
                  call.result = [agent |-> call.agent, message |-> <<"help">>]
            /\ (/\ StartsWithSlash(call.message)
                /\ Len(call.message) >= 2
                /\ call.message[2] \in agent_or_aliases
                /\ \A i \in 3..Len(call.message) : call.message[i] \in WhiteSpace) =>
                  call.result =
                    [agent |-> IF call.message[2] \in {"code", "copilot"} THEN "codex"
                               ELSE call.message[2],
                     message |-> <<>>]

\* a slash followed by whitespace only asked the current agent for help
C23_Witness ==
    /\ parsed # None
    /\ parsed[1].agent = "gemini"
    /\ parsed[1].message = <<"/", " ", "\t">>
    /\ parsed[1].result = [agent |-> "gemini", message |-> <<"help">>]

(***************************************************************************)
(* CodexStreamAccumulator (services/cli_output_service.rs).  Text is a      *)
(* sequence of symbols as for the parser; the marker "data:" is the two     *)
(* symbols "da", "ta:" so that a chunk boundary can fall inside it.         *)
(***************************************************************************)
MaxTextLen == 4            \* symbols of a text fed to the accumulator

LineBreaks == {"\r", "\n"}
AccSymbols == {"\r", "\n", " ", "da", "ta:", "[DONE]", "x"}
DataMarker == <<"da", "ta:">>

\* the streams of the documentation: an event stream ended by the sentinel, one with
\* an id line, a sentinel in lower case and an unterminated last segment, and one
\* with an event line
StreamTexts ==
    {<<"da", "ta:", " ", "{a:1}", "\r", "\n", "da", "ta:", " ", "[DONE]", "\r", "\n">>,
     <<"id:", "1", "\n", "da", "ta:", "[done]", "\r", "x">>,
     <<" ", "event:", "x", "\r", "\r", "da", "ta:", "x", "\n">>}

AccTexts == SeqsUpTo(AccSymbols, MaxTextLen) \cup StreamTexts

\* text.starts_with(prefix)
HasPrefix(text, prefix) ==
    Len(text) >= Len(prefix) /\ SubSeq(text, 1, Len(prefix)) = prefix

\* the rest of strip_prefix(prefix)
StripPrefix(text, prefix) == SubSeq(text, Len(prefix) + 1, Len(text))

\* to_ascii_lowercase on the symbols of the alphabet
LowerAscii(sym) ==
    IF sym = "[DONE]" THEN "[done]"
    ELSE IF sym \in {"Codex", "CODEX"} THEN "codex"
    ELSE sym

\* a comparison that tells letter cases apart
EqExact(a, b) == a = b

\* a.eq_ignore_ascii_case(b)
EqIgnoreAsciiCase(a, b) ==
    Len(a) = Len(b) /\ \A i \in DOMAIN a : LowerAscii(a[i]) = LowerAscii(b[i])

process_segment(segment, results) ==
    LET trimmed == TrimWs(segment) IN
    IF trimmed = <<>> THEN results
    ELSE IF HasPrefix(trimmed, DataMarker)
         THEN LET data == TrimWs(StripPrefix(trimmed, DataMarker)) IN
              IF data = <<>> \/ EqIgnoreAsciiCase(data, <<"[DONE]">>)
              THEN results ELSE Append(results, data)
         ELSE IF HasPrefix(trimmed, <<"event:">>) \/ HasPrefix(trimmed, <<"id:">>)
              THEN results
              ELSE Append(results, trimmed)

\* the inner while loop: the first index at or after idx that holds no separator
RECURSIVE SkipSeparators(_, _)
SkipSeparators(bytes, idx) ==
    IF idx <= Len(bytes) /\ bytes[idx] \in LineBreaks
    THEN SkipSeparators(bytes, idx + 1) ELSE idx

\* the outer while loop of push_chunk (indices from 1)
RECURSIVE Scan(_, _, _, _)
Scan(bytes, idx, start, results) ==
    IF idx > Len(bytes) THEN [start |-> start, results |-> results]
    ELSE IF bytes[idx] \in LineBreaks
         THEN LET done == IF start < idx
                          THEN process_segment(SubSeq(bytes, start, idx - 1), results)
                          ELSE results
                  next == SkipSeparators(bytes, idx + 1)
              IN  Scan(bytes, next, next, done)
         ELSE Scan(bytes, idx + 1, start, results)

\* a push that forgets the unconsumed tail
DrainAll(bytes, start) == <<>>

\* self.buffer.drain(..start)
Drain(bytes, start) == SubSeq(bytes, start, Len(bytes))

push_chunk(buffer, chunk) ==
    IF chunk = <<>> THEN [buffer |-> buffer, results |-> <<>>]
    ELSE LET bytes == buffer \o chunk
             scan == Scan(bytes, 1, 1, <<>>)
         IN  [buffer |-> IF scan.start > 1 THEN Drain(bytes, scan.start) ELSE bytes,
              results |-> scan.results]

\* a flush that leaves the buffered text in place
FlushPeek(buffer) ==
    LET results == process_segment(buffer, <<>>) IN
    [buffer |-> buffer,
     result |-> IF results = <<>> THEN None ELSE Some(results[Len(results)])]

flush(buffer) ==
    IF buffer = <<>> THEN [buffer |-> buffer, result |-> None]
    ELSE LET results == process_segment(buffer, <<>>) IN
         [buffer |-> <<>>,
          result |-> IF results = <<>> THEN None ELSE Some(results[Len(results)])]

\* CodexStreamAccumulator::new(), and the text the stream is going to deliver
AccNew(text) ==
    /\ acc = None
    /\ acc' = Some([text |-> text, rest |-> text, buffer |-> <<>>, out |-> <<>>,
                    flushed |-> FALSE, again |-> FALSE, cut |-> FALSE])
    /\ UNCHANGED <<regVars, launchVars, parsed, sanitized, built, recent, locks>>

\* a chunk of n symbols ends inside a "data:" marker or inside a separator run
CutsInside(rest, n) ==
    /\ 0 < n /\ n < Len(rest)
    /\ \/ rest[n] = "da" /\ rest[n + 1] = "ta:"
       \/ rest[n] \in LineBreaks /\ rest[n + 1] \in LineBreaks

\* the next n symbols of the stream arrive as one chunk; cut records that some chunk
\* so far ended inside a marker or a separator run
PushChunk(n) ==
    /\ acc # None
    /\ ~acc[1].flushed
    /\ n <= Len(acc[1].rest)
    /\ LET chunk == SubSeq(acc[1].rest, 1, n)
           r == push_chunk(acc[1].buffer, chunk)
       IN  acc' = Some([acc[1] EXCEPT !.rest = SubSeq(@, n + 1, Len(@)),
                                      !.buffer = r.buffer,
                                      !.out = @ \o r.results,
                                      !.cut = @ \/ CutsInside(acc[1].rest, n)])
    /\ UNCHANGED <<regVars, launchVars, parsed, sanitized, built, recent, locks>>

\* the stream has ended and the caller flushes
Flush ==
    /\ acc # None
    /\ ~acc[1].flushed
    /\ acc[1].rest = <<>>
    /\ LET r == flush(acc[1].buffer) IN
       acc' = Some([acc[1] EXCEPT !.buffer = r.buffer,
                                  !.out = IF r.result = None THEN @
                                          ELSE Append(@, r.result[1]),
                                  !.flushed = TRUE])
    /\ UNCHANGED <<regVars, launchVars, parsed, sanitized, built, recent, locks>>

\* a second flush right after the first
FlushAgain ==
    /\ acc # None
    /\ acc[1].flushed
    /\ ~acc[1].again
    /\ LET r == flush(acc[1].buffer) IN
       acc' = Some([acc[1] EXCEPT !.buffer = r.buffer,
                                  !.out = IF r.result = None THEN @
                                          ELSE Append(@, r.result[1]),
                                  !.again = TRUE])
    /\ UNCHANGED <<regVars, launchVars, parsed, sanitized, built, recent, locks>>

NextAccumulator ==
    \/ acc = None /\ \E text \in AccTexts : AccNew(text)
    \/ acc # None /\ \E n \in 0..Len(acc[1].rest) : PushChunk(n)
    \/ Flush
    \/ FlushAgain

SpecAccumulator == Init /\ [][NextAccumulator]_vars

(***************************************************************************)
(* Claims about the accumulator                                             *)
(***************************************************************************)
\* the messages of pushing the whole text in one call and flushing
OneCall(text) ==
    LET pushed == push_chunk(<<>>, text)
        last == flush(pushed.buffer).result
    IN  pushed.results \o (IF last = None THEN <<>> ELSE <<last[1]>>)

\* C24: framing is independent of chunking: for every text and every way of splitting
\* it into successive push_chunk calls (empty chunks, splits inside a separator run or
\* inside a "data:" marker included), the messages returned by the calls followed by
\* flush are the messages of pushing the whole text in one call followed by flush.
C24_ChunkingIndependent ==
    (acc # None /\ acc[1].flushed) => acc[1].out = OneCall(acc[1].text)

\* the event stream was delivered with a chunk boundary inside a marker or a separator
\* run, flushed, and gave its one message
C24_Witness ==
    /\ acc # None
    /\ acc[1].flushed
    /\ acc[1].cut
    /\ Len(acc[1].text) = 12
    /\ acc[1].out = <<(<<"{a:1}">>)>>

\* the completed segments of a text: the maximal runs without separator that a
\* separator follows, in order
RECURSIVE SegmentsFrom(_, _)
SegmentsFrom(text, i) ==
    IF i > Len(text) THEN <<>>
    ELSE IF text[i] \in LineBreaks \/ (i > 1 /\ text[i - 1] \notin LineBreaks)
         THEN SegmentsFrom(text, i + 1)
         ELSE LET j == CHOOSE j \in i..Len(text) :
                          /\ \A k \in i..j : text[k] \notin LineBreaks
                          /\ j = Len(text) \/ text[j + 1] \in LineBreaks
              IN  (IF j < Len(text) THEN <<SubSeq(text, i, j)>> ELSE <<>>)
                      \o SegmentsFrom(text, i + 1)

\* what one segment contributes, given the remainders that count as the sentinel
MessagesOfSegment(segment, sentinels) ==
    LET trimmed == TrimWs(segment)
        data == TrimWs(SubSeq(trimmed, 3, Len(trimmed)))
    IN  IF Len(trimmed) >= 2 /\ trimmed[1] = "da" /\ trimmed[2] = "ta:"
        THEN IF data = <<>> \/ data \in sentinels THEN <<>> ELSE <<data>>
        ELSE IF trimmed = <<>> \/ trimmed[1] \in {"event:", "id:"}
             THEN <<>> ELSE <<trimmed>>

RECURSIVE MessagesOfSegments(_, _)
MessagesOfSegments(segments, sentinels) ==
    IF segments = <<>> THEN <<>>
    ELSE MessagesOfSegment(Head(segments), sentinels)
             \o MessagesOfSegments(Tail(segments), sentinels)

\* a step that is a call of push_chunk returns, for the buffered text followed by
\* the chunk, the messages of its completed segments, none of them empty
PushReturns(sentinels) ==
    (acc # None /\ acc' # None /\ ~acc'[1].flushed) =>
        LET chunk == SubSeq(acc[1].rest, 1, Len(acc[1].rest) - Len(acc'[1].rest))
            returned == SubSeq(acc'[1].out, Len(acc[1].out) + 1, Len(acc'[1].out))
        IN  /\ returned =
                 MessagesOfSegments(SegmentsFrom(acc[1].buffer \o chunk, 1), sentinels)
            /\ \A i \in DOMAIN returned : returned[i] # <<>>

\* C25 as stated: push_chunk treats every maximal run of CR / LF as one boundary and
\* emits, for each completed segment in order, the trimmed remainder after "data:"
\* unless it is empty or is [DONE], nothing for a segment starting with "event:" or
\* "id:", the trimmed segment otherwise, and never an empty message.
C25_PushChunkFraming == [][PushReturns({<<"[DONE]">>})]_vars

\* C25 as amended: the same, the remainder after "data:" being dropped when it is
\* empty or is [DONE] in any letter case.
C25_PushChunkFramingAnyCase == [][PushReturns({<<"[DONE]">>, <<"[done]">>})]_vars

\* the event stream ended by the sentinel was pushed and gave exactly its data payload
C25_Witness ==
    /\ acc # None
    /\ ~acc[1].flushed
    /\ Len(acc[1].text) = 12
    /\ acc[1].rest = <<>>
    /\ acc[1].buffer = <<>>
    /\ ~acc[1].cut
    /\ acc[1].out = <<(<<"{a:1}">>)>>

(***************************************************************************)
(* sanitize_cli_output_line (services/cli_output_service.rs).  A line is a  *)
(* sequence of symbols; each warning text of the filter is one symbol.      *)
(***************************************************************************)
MaxLineLen == 4            \* symbols of a line given to the filter

\* the hint, written without its backquotes
TraceWarningsHint == "(Use node --trace-warnings ... to show where the warning was created)"
NodeMarker == "(node:"
LinenoWarning == "Warning: Accessing non-existent property 'lineno'"
FilenameWarning == "Warning: Accessing non-existent property 'filename'"
CircularSuffix == "inside circular dependency"

LineSymbols ==
    {" ", TraceWarningsHint, NodeMarker, LinenoWarning, FilenameWarning, CircularSuffix,
     "x"}

\* the lines of the unit tests
TestLines ==
    {<<NodeMarker, "47953) ", LinenoWarning, " of module exports ", CircularSuffix>>,
     <<NodeMarker, "47953) ", FilenameWarning, " of module exports ", CircularSuffix>>,
     <<TraceWarningsHint>>,
     <<"npm ERR! missing script: start">>}

Lines == SeqsUpTo(LineSymbols, MaxLineLen) \cup TestLines
FilterAgents == {"codex", "Codex", "claude", "gemini"}

\* a filter that applies to every agent
AnyAgentFiltered(agent) == TRUE

\* agent.eq_ignore_ascii_case("codex")
IsFilteredAgent(agent) == EqIgnoreAsciiCase(<<agent>>, <<"codex">>)

\* a filter that knows the trace-warnings hint only
IsTraceWarningsHint(trimmed) == trimmed = <<TraceWarningsHint>>

\* is_known_warning
IsKnownWarning(trimmed) ==
    \/ trimmed = <<TraceWarningsHint>>
    \/ /\ HasPrefix(trimmed, <<NodeMarker>>)
       /\ trimmed # <<>> /\ trimmed[Len(trimmed)] = CircularSuffix
       /\ \/ \E i \in DOMAIN trimmed : trimmed[i] = LinenoWarning
          \/ \E i \in DOMAIN trimmed : trimmed[i] = FilenameWarning

sanitize_cli_output_line(agent, line) ==
    IF ~IsFilteredAgent(agent) THEN Some(line)
    ELSE LET trimmed == TrimWs(line) IN
         IF IsKnownWarning(trimmed) THEN None ELSE Some(line)

\* one call of the filter, on arguments chosen by the caller
SanitizeCliOutputLine(agent, line) ==
    /\ sanitized = None
    /\ sanitized' = Some([agent |-> agent, line |-> line,
                          result |-> sanitize_cli_output_line(agent, line)])
    /\ UNCHANGED <<regVars, launchVars, parsed, acc, built, recent, locks>>

NextSanitize ==
    /\ sanitized = None
    /\ \E agent \in FilterAgents, line \in Lines : SanitizeCliOutputLine(agent, line)

SpecSanitize == Init /\ [][NextSanitize]_vars

(***************************************************************************)
(* Claims about the filter                                                  *)
(***************************************************************************)
\* the text is the trace-warnings hint, or begins with "(node:", ends with the
\* circular-dependency suffix and contains one of the two property warnings
MatchesWarning(text) ==
    \/ text = <<TraceWarningsHint>>
    \/ /\ text # <<>>
       /\ text[1] = NodeMarker
       /\ text[Len(text)] = CircularSuffix
       /\ \E i \in DOMAIN text : text[i] \in {LinenoWarning, FilenameWarning}

\* C26 as stated: for every agent other than codex and every line, the filter returns
\* the line unchanged, the hint and the circular-dependency warnings included.
C26_OtherAgentsUnchanged ==
    (sanitized # None /\ sanitized[1].agent # "codex") =>
        sanitized[1].result = Some(sanitized[1].line)

\* C26 as amended: for every agent whose name is not codex in any letter case and
\* every line, the filter returns the line unchanged, the hint and the
\* circular-dependency warnings included.
C26_OtherAgentsUnchangedAnyCase ==
    (sanitized # None /\ sanitized[1].agent \notin {"codex", "Codex", "CODEX"}) =>
        sanitized[1].result = Some(sanitized[1].line)

\* a circular-dependency warning of another agent came back unchanged
C26_Witness ==
    /\ sanitized # None
    /\ sanitized[1].agent = "claude"
    /\ Len(sanitized[1].line) = 5
    /\ MatchesWarning(sanitized[1].line)
    /\ sanitized[1].result = Some(sanitized[1].line)

\* C27 as stated: for codex the filter drops a line if and only if the line is exactly
\* the hint or matches the circular-dependency pattern; every other line is returned
\* unchanged.
C27_CodexDropsExactly ==
    (sanitized # None /\ sanitized[1].agent = "codex") =>
        sanitized[1].result =
            (IF MatchesWarning(sanitized[1].line) THEN None ELSE Some(sanitized[1].line))

\* C27 as amended: for codex the filter drops a line if and only if the line, with
\* its leading and trailing whitespace removed, is exactly the hint or matches the
\* circular-dependency pattern; every other line is returned unchanged.
C27_CodexDropsTrimmed ==
    (sanitized # None /\ sanitized[1].agent = "codex") =>
        sanitized[1].result =
            (IF MatchesWarning(TrimWs(sanitized[1].line)) THEN None
             ELSE Some(sanitized[1].line))

\* a filename warning of codex was dropped
C27_Witness ==
    /\ sanitized # None
    /\ sanitized[1].agent = "codex"
    /\ \E i \in DOMAIN sanitized[1].line : sanitized[1].line[i] = FilenameWarning
    /\ Len(sanitized[1].line) = 5
    /\ sanitized[1].result = None

(***************************************************************************)
(* build_agent_command_args (commands/cli_commands.rs).  The settings are   *)
(* what load_all_agent_settings returned: None for Err, Some(the model of    *)
(* each agent) for Ok.                                                      *)
(* ExecutionMode::from_str and codex_flags_for_mode belong to               *)
(* execution_mode_service, which is not part of the sources at hand: the    *)
(* known modes and the flags of a mode are taken from spec 4.1, the flags   *)
(* of a mode being kept abstract.                                           *)
(***************************************************************************)
BuildAgents == {"claude", "codex", "gemini", "test", "Codex"}
BuildMessages == {"", "fix the bug"}
ModeTags == {None, Some("chat"), Some("collab"), Some("full"), Some("turbo")}
PermissionModes == {None, Some(""), Some("plan")}
ModelOptions == {None, Some(""), Some("o3")}
SettingsResults ==
    {None} \cup {Some(models) : models \in [{"claude", "codex", "gemini"} -> ModelOptions]}

\* AgentSettings::default().model for every agent
DefaultAllAgentSettings == [a \in {"claude", "codex", "gemini"} |-> None]

\* load_all_agent_settings(..).await.unwrap_or_else(|_| defaults)
AgentSettingsOrDefault(settings) ==
    IF settings = None THEN DefaultAllAgentSettings ELSE settings[1]

\* current_agent_settings.model
CurrentModel(agent, agent_settings) ==
    IF agent \in {"claude", "codex", "gemini"} THEN agent_settings[agent] ELSE None

\* if let Some(ref model) = .. { if !model.is_empty() { "--model", model } }
ModelFlag(model) ==
    IF model # None /\ model[1] # "" THEN <<"--model", model[1]>> ELSE <<>>

\* if let Some(pm) = .. { if !pm.is_empty() { "--permission-mode", pm } }
PermissionFlag(permission_mode) ==
    IF permission_mode # None /\ permission_mode[1] # ""
    THEN <<"--permission-mode", permission_mode[1]>> ELSE <<>>

\* if !message.is_empty() { args.push(message) }
MessageArg(message) == IF message # "" THEN <<message>> ELSE <<>>

\* ExecutionMode::from_str
ExecutionModeFromStr(mode_str) ==
    IF mode_str = "chat" THEN Some("Chat")
    ELSE IF mode_str = "collab" THEN Some("Collab")
    ELSE IF mode_str = "full" THEN Some("Full")
    ELSE None

\* codex_flags_for_mode(mode, unsafe_full)
codex_flags_for_mode(mode, unsafe_full) ==
    <<"--flags-of-mode", mode>> \o (IF unsafe_full THEN <<"--bypass">> ELSE <<>>)

\* a builder that passes the bypass on for every mode
BypassAnyMode(mode, dangerous_bypass) == dangerous_bypass

\* dangerous_bypass && matches!(mode, ExecutionMode::Full)
UnsafeFull(mode, dangerous_bypass) == dangerous_bypass /\ mode = "Full"

\* a claude command line with the message after the flags
ClaudeArgsMessageLast(message, permission_mode, model) ==
    <<"-p", "--output-format", "stream-json", "--verbose">>
        \o PermissionFlag(permission_mode) \o ModelFlag(model) \o MessageArg(message)

\* the "claude" arm
ClaudeArgs(message, permission_mode, model) ==
    <<"-p">> \o MessageArg(message) \o <<"--output-format", "stream-json", "--verbose">>
        \o PermissionFlag(permission_mode) \o ModelFlag(model)

\* the "codex" arm
CodexArgs(message, execution_mode, dangerous_bypass, model) ==
    LET mode == IF execution_mode = None THEN None
                ELSE ExecutionModeFromStr(execution_mode[1])
        extra == IF mode = None THEN <<>>
                 ELSE codex_flags_for_mode(mode[1], UnsafeFull(mode[1], dangerous_bypass))
    IN  <<"exec">> \o ModelFlag(model) \o extra \o MessageArg(message)

\* a gemini command line with the model before the permission mode
GeminiArgsModelFirst(message, permission_mode, model) ==
    <<"--prompt">> \o ModelFlag(model) \o PermissionFlag(permission_mode)
        \o MessageArg(message)

\* the "gemini" arm
GeminiArgs(message, permission_mode, model) ==
    <<"--prompt">> \o PermissionFlag(permission_mode) \o ModelFlag(model)
        \o MessageArg(message)

build_agent_command_args(agent, message, settings, execution_mode, dangerous_bypass, permission_mode) ==
    LET model == CurrentModel(agent, AgentSettingsOrDefault(settings)) IN
    IF agent = "claude" THEN ClaudeArgs(message, permission_mode, model)
    ELSE IF agent = "codex"
         THEN CodexArgs(message, execution_mode, dangerous_bypass, model)
    ELSE IF agent = "gemini" THEN GeminiArgs(message, permission_mode, model)
    ELSE MessageArg(message)

\* one call of the builder, on arguments chosen by the caller and with the settings
\* the store returned
BuildAgentCommandArgs(agent, message, settings, execution_mode, dangerous_bypass, permission_mode) ==
    /\ built = None
    /\ built' = Some([agent |-> agent, message |-> message, settings |-> settings,
                      execution_mode |-> execution_mode,
                      dangerous_bypass |-> dangerous_bypass,
                      permission_mode |-> permission_mode,
                      result |-> build_agent_command_args(agent, message, settings,
                                     execution_mode, dangerous_bypass, permission_mode)])
    /\ UNCHANGED <<regVars, launchVars, parsed, acc, sanitized, recent, locks>>

NextBuild ==
    /\ built = None
    /\ \E agent \in BuildAgents, message \in BuildMessages,
          settings \in SettingsResults, execution_mode \in ModeTags,
          dangerous_bypass \in BOOLEAN, permission_mode \in PermissionModes :
           BuildAgentCommandArgs(agent, message, settings, execution_mode,
                                 dangerous_bypass, permission_mode)

SpecBuild == Init /\ [][NextBuild]_vars

(***************************************************************************)
(* Claims about the argument builder                                        *)
(***************************************************************************)
\* the model the settings hold for the agent of the call; none when they failed to load
ConfiguredModel ==
    IF built[1].settings = None THEN None
    ELSE built[1].settings[1][built[1].agent]

\* flag and value when the option is present, whatever its value
IfPresent(flag, option) == IF option # None THEN <<flag, option[1]>> ELSE <<>>

\* flag and value when the option is present and not the empty string
IfNonEmpty(flag, option) ==
    IF option # None /\ option[1] # "" THEN <<flag, option[1]>> ELSE <<>>

\* the message as one argument, nothing when it is empty
IfMessage == IF built[1].message # "" THEN <<built[1].message>> ELSE <<>>

\* C28: for claude the builder returns exactly "-p", the message if non-empty,
\* "--output-format", "stream-json", "--verbose", then "--permission-mode" and the
\* mode if a non-empty one is supplied, then "--model" and the model if a non-empty
\* one is configured; the execution mode and the bypass flag have no effect.
C28_ClaudeArgs ==
    (built # None /\ built[1].agent = "claude") =>
        built[1].result =
            <<"-p">> \o IfMessage \o <<"--output-format", "stream-json", "--verbose">>
                \o IfNonEmpty("--permission-mode", built[1].permission_mode)
                \o IfNonEmpty("--model", ConfiguredModel)

\* claude was given a message, a permission mode, a model, an execution mode and the
\* bypass, and the last two left no trace
C28_Witness ==
    /\ built # None
    /\ built[1].agent = "claude"
    /\ built[1].execution_mode = Some("full")
    /\ built[1].dangerous_bypass
    /\ built[1].result =
           <<"-p", "fix the bug", "--output-format", "stream-json", "--verbose",
             "--permission-mode", "plan", "--model", "o3">>

\* the mode the tag of the call resolves to: none for an absent or unknown tag
ResolvedMode ==
    IF built[1].execution_mode \in {Some("chat"), Some("collab"), Some("full")}
    THEN ExecutionModeFromStr(built[1].execution_mode[1]) ELSE None

\* the codex command line, given the arguments for the model
CodexExpected(model_args) ==
    /\ built[1].result =
          <<"exec">> \o model_args
              \o (IF ResolvedMode = None THEN <<>>
                  ELSE codex_flags_for_mode(ResolvedMode[1],
                           built[1].dangerous_bypass /\ ResolvedMode = Some("Full")))
              \o IfMessage
    /\ ResolvedMode # Some("Full") =>
          built[1].result =
              build_agent_command_args(built[1].agent, built[1].message,
                  built[1].settings, built[1].execution_mode,
                  ~built[1].dangerous_bypass, built[1].permission_mode)

\* C29 as stated: for codex the builder returns exactly "exec", then "--model" and the
\* model if configured, then the flags of the execution mode when the tag resolves to
\* a known mode, then the message if non-empty; the bypass changes the result only
\* when the mode resolves to Full.
C29_CodexArgs ==
    (built # None /\ built[1].agent = "codex") =>
        CodexExpected(IfPresent("--model", ConfiguredModel))

\* C29 as amended: the same, "--model" and the model being emitted if a non-empty
\* model is configured.
C29_CodexArgsNonEmptyModel ==
    (built # None /\ built[1].agent = "codex") =>
        CodexExpected(IfNonEmpty("--model", ConfiguredModel))

\* codex was given a mode other than Full together with the bypass
C29_Witness ==
    /\ built # None
    /\ built[1].agent = "codex"
    /\ built[1].dangerous_bypass
    /\ built[1].execution_mode = Some("collab")
    /\ built[1].result =
           <<"exec", "--model", "o3">> \o codex_flags_for_mode("Collab", FALSE)
               \o <<"fix the bug">>

\* the command line of gemini and of the other agents, given the arguments for the
\* permission mode and for the model
GeminiAndOthersExpected(permission_args, model_args) ==
    /\ built[1].agent = "gemini" =>
          built[1].result = <<"--prompt">> \o permission_args \o model_args \o IfMessage
    /\ built[1].agent \notin {"claude", "codex", "gemini"} =>
          built[1].result = IfMessage

\* C30 as stated: for gemini the builder returns exactly "--prompt", then
\* "--permission-mode" and the mode if supplied, then "--model" and the model if
\* configured, then the message if non-empty; for an agent other than claude, codex
\* and gemini it returns the message alone if non-empty and nothing otherwise.
C30_GeminiAndOtherArgs ==
    (built # None /\ built[1].agent \notin {"claude", "codex"}) =>
        GeminiAndOthersExpected(
            IfPresent("--permission-mode", built[1].permission_mode),
            IF built[1].agent = "gemini" THEN IfPresent("--model", ConfiguredModel)
            ELSE <<>>)

\* C30 as amended: the same, "--permission-mode" and the mode being emitted if a
\* non-empty mode is supplied and "--model" and the model if a non-empty model is
\* configured.
C30_GeminiAndOtherArgsNonEmpty ==
    (built # None /\ built[1].agent \notin {"claude", "codex"}) =>
        GeminiAndOthersExpected(
            IfNonEmpty("--permission-mode", built[1].permission_mode),
            IF built[1].agent = "gemini" THEN IfNonEmpty("--model", ConfiguredModel)
            ELSE <<>>)

\* gemini was given a permission mode, a model and a message
C30_Witness ==
    /\ built # None
    /\ built[1].agent = "gemini"
    /\ built[1].result =
           <<"--prompt", "--permission-mode", "plan", "--model", "o3", "fix the bug">>

(***************************************************************************)
(* The quit directive: sessions of every agent, with an input channel, that *)
(* terminate-by-id and send-quit write to.                                  *)
(***************************************************************************)
QuitLaunches ==
    {[agent |-> "claude", working_dir |-> None, stdin |-> TRUE],
     [agent |-> "codex", working_dir |-> None, stdin |-> TRUE],
     [agent |-> "codex", working_dir |-> Some("/w"), stdin |-> TRUE],
     [agent |-> "gemini", working_dir |-> None, stdin |-> TRUE],
     [agent |-> "test", working_dir |-> Some("/w"), stdin |-> TRUE]}

NextQuit ==
    \/ \E id \in SessionIds, r \in QuitLaunches :
          Register(id, r.agent, r.working_dir, r.stdin)
    \/ \E h \in Handles : DropCleanup(h)
    \/ \E t \in Tasks, id \in SessionIds : TerminateById(t, id)
    \/ \E t \in Tasks : TerminateIndex(t)
    \/ \E t \in Tasks : TerminateQuit(t)
    \/ \E t \in Tasks : TerminateGrace(t)
    \/ \E t \in Tasks : TerminateKill(t)
    \/ \E t \in Tasks, id \in SessionIds : SendQuitToSession(t, id)

SpecQuit == Init /\ [][NextQuit]_vars

\* the agent of the session that owns the handle: the session is in SESSIONS, or in
\* the hands of the terminate call that removed it
AgentsOfHandle(h) ==
    {SESSIONS[id].session.agent : id \in {i \in DOMAIN SESSIONS : SESSIONS[i].process = h}}
    \cup {tasks[t].session[1].session.agent :
             t \in {u \in Callers : tasks[u].session # None
                                      /\ tasks[u].session[1].process = h}}

\* C31: the quit directive put on a session's input channel, by terminate-by-id and by
\* send-quit alike, is the newline-terminated literal of the session's agent: "/exit"
\* for codex, "/quit" for claude, gemini and every other agent tag; it depends on
\* nothing but the agent.
C31_QuitDirective ==
    [][\A h \in DOMAIN chan :
          chan'[h].msgs # chan[h].msgs /\ chan'[h].msgs # <<>> =>
              /\ Len(chan'[h].msgs) = Len(chan[h].msgs) + 1
              /\ \A a \in AgentsOfHandle(h) :
                    chan'[h].msgs =
                        Append(chan[h].msgs, IF a = "codex" THEN "/exit\n" ELSE "/quit\n")
              /\ AgentsOfHandle(h) # {}]_vars

\* terminate-by-id has put the directive on the channel of a codex session that
\* send-quit had written to before, and a gemini session has got the other literal
C31_Witness ==
    /\ \E t \in Tasks :
          /\ tasks[t].op = "terminate"
          /\ tasks[t].pc = "sleep"
          /\ tasks[t].session[1].session.agent = "codex"
          /\ tasks[t].session[1].session.working_dir # None
          /\ chan[tasks[t].session[1].process].msgs = <<"/exit\n", "/exit\n">>
    /\ \E id \in DOMAIN SESSIONS :
          /\ SESSIONS[id].session.agent = "gemini"
          /\ chan[SESSIONS[id].process].msgs = <<"/quit\n">>

(***************************************************************************)
(* add_project_to_recent_projects (services/project_service.rs).  A project *)
(* entry is known by its path; the calls come one after the other.  New     *)
(* paths are opened in the order 1, 2, ..; a path opened before is reopened *)
(* at any time, whether or not it is still in the list.                     *)
(***************************************************************************)
\* distinct paths opened with success in one behaviour
MaxNewPaths == 11
\* successful calls with a path that was opened before
MaxReopens == 2

RecentLimit == 10

\* a list that keeps the earlier entry of the path
RetainAll(projects, project_path) == projects

\* projects_data.projects.retain(|p| p.path != project_path)
Retain(projects, project_path) ==
    SelectSeq(projects, LAMBDA p : p.path # project_path)

\* projects_data.projects.insert(0, new_project)
InsertFirst(projects, new_project) == <<new_project>> \o projects

\* projects_data.projects.truncate(n)
Truncate(projects, n) ==
    IF Len(projects) > n THEN SubSeq(projects, 1, n) ELSE projects

\* the list the call saves back to the store
add_project_to_recent_projects(projects, project_path) ==
    Truncate(InsertFirst(Retain(projects, project_path), [path |-> project_path]),
             RecentLimit)

\* what the call leaves in last: its argument, its result, whether the path was in the
\* list, and the length of the list before the call
CallRecord(project_path, ret) ==
    Some([path |-> project_path, ret |-> ret,
          present |-> \E i \in DOMAIN recent.projects :
                         recent.projects[i].path = project_path,
          before |-> Len(recent.projects)])

\* the call runs to Ok(()); base is the store with the successful call counted
AddProjectOk(base, project_path) ==
    recent' = [base EXCEPT
                 !.projects = add_project_to_recent_projects(@, project_path),
                 !.last = CallRecord(project_path, "Ok")]

\* app.store(..) fails: the call returns Err before it reads the list
AddProjectStoreErr(project_path) ==
    recent' = [recent EXCEPT !.last = CallRecord(project_path, "Err")]

\* one call of the command
AddProjectToRecentProjects(base, project_path) ==
    /\ \/ AddProjectOk(base, project_path)
       \/ AddProjectStoreErr(project_path)
    /\ UNCHANGED <<regVars, launchVars, parsed, acc, sanitized, built, locks>>

\* a call with a path that was not opened before
OpenNewProject ==
    /\ recent.opened < MaxNewPaths
    /\ AddProjectToRecentProjects([recent EXCEPT !.opened = @ + 1], recent.opened + 1)

\* a call with a path that was opened before
ReopenProject(project_path) ==
    /\ recent.reopened < MaxReopens
    /\ project_path \in 1..recent.opened
    /\ AddProjectToRecentProjects([recent EXCEPT !.reopened = @ + 1], project_path)

NextRecent ==
    \/ OpenNewProject
    \/ \E project_path \in 1..MaxNewPaths : ReopenProject(project_path)

SpecRecent == Init /\ [][NextRecent]_vars

\* the paths of the stored list, in order
StoredPaths == [i \in DOMAIN recent.projects |-> recent.projects[i].path]

\* C32: after any sequence of calls the stored list has no two entries with the same
\* path and at most 10 entries; after a call that returned Ok the path of that call is
\* first, and if the path was already in the list the length is what it was before.
C32_RecentProjects ==
    /\ \A i, j \in DOMAIN StoredPaths : StoredPaths[i] = StoredPaths[j] => i = j
    /\ Len(recent.projects) <= 10
    /\ recent.last # None /\ recent.last[1].ret = "Ok" =>
          /\ recent.projects # <<>>
          /\ StoredPaths[1] = recent.last[1].path
          /\ recent.last[1].present => Len(recent.projects) = recent.last[1].before

\* a full list of ten whose first entry was just moved up from further down
C32_Witness ==
    /\ Len(recent.projects) = 10
    /\ recent.opened = MaxNewPaths
    /\ recent.last # None
    /\ recent.last[1].ret = "Ok"
    /\ recent.last[1].present
    /\ recent.last[1].path < recent.opened

(***************************************************************************)
(* Sessions that share a sessionKey                                         *)
(***************************************************************************)
\* the secondary index maps the key of the registered session id to id
IndexedAs(index, id) ==
    /\ KeyOf(SESSIONS[id]) \in DOMAIN index
    /\ index[KeyOf(SESSIONS[id])] = id

\* C33: the index entry that points to a registered session is neither removed nor
\* changed while that session stays registered, unless a session registered in the same
\* step takes the key over; terminating an older session of the same key leaves it.
C33_IndexKeepsNewest ==
    [][\A id \in DOMAIN SESSIONS \cap DOMAIN SESSIONS' :
          IndexedAs(SESSION_INDEX, id) =>
             \/ IndexedAs(SESSION_INDEX', id)
             \/ \E n \in DOMAIN SESSIONS' \ DOMAIN SESSIONS :
                   SESSION_INDEX'[KeyOf(SESSIONS[id])] = n]_vars

(***************************************************************************)
(* The idle sweep beside a terminate-by-id: two tasks that call             *)
(* terminate_session_process, with the clock, registrations and the drop    *)
(* cleanup tasks.                                                           *)
(***************************************************************************)
RaceLaunches == {[agent |-> "claude", working_dir |-> None, stdin |-> TRUE]}

NextRace ==
    \/ \E id \in SessionIds, r \in RaceLaunches :
          Register(id, r.agent, r.working_dir, r.stdin)
    \/ Tick
    \/ \E h \in Handles : DropCleanup(h)
    \/ CleanupStart("t1")
    \/ CleanupScan("t1")
    \/ LoopNext("t1")
    \/ \E id \in SessionIds : TerminateById("t2", id)
    \/ \E t \in Callers : TerminateIndex(t)
    \/ \E t \in Callers : TerminateQuit(t)
    \/ \E t \in Callers : TerminateGrace(t)
    \/ \E t \in Callers : TerminateKill(t)

SpecRace == Init /\ [][NextRace]_vars

\* the tasks that hold the removed ActiveSession of handle h
Holders(h) ==
    {t \in Callers : tasks[t].session # None /\ tasks[t].session[1].process = h}

\* the places the ActiveSession of handle h is in: the primary map, a terminate call
\* that removed it, the cleanup task its drop spawned
Owners(h) ==
    {<<"map", id>> : id \in {i \in DOMAIN SESSIONS : SESSIONS[i].process = h}}
      \cup {<<"task", t>> : t \in Holders(h)}
      \cup {<<"drop", x>> : x \in dropPending \cap {h}}

\* C34: a session's process handle is with at most one of the primary map, one terminate
\* call and the drop cleanup task at a time; its child is taken at most once, and is
\* killed only in the step that takes it; a step that finds it taken changes nothing of it.
C34_HandleTakenOnce ==
    /\ [](\A h \in DOMAIN process : Cardinality(Owners(h)) <= 1)
    /\ [][\A h \in DOMAIN process :
            /\ process'[h] # process[h] => process[h] = "Some" /\ process'[h] = "None"
            /\ child'[h] # child[h] =>
                  /\ process[h] = "Some" /\ process'[h] = "None"
                  /\ child[h] = "running" /\ child'[h] = "killed"
            /\ Holders(h)' \ Holders(h) # {} =>
                  /\ Cardinality(Holders(h)' \ Holders(h)) = 1
                  /\ \E id \in DOMAIN SESSIONS \ DOMAIN SESSIONS' :
                        SESSIONS[id].process = h]_vars

\* the sweep removed and killed the session of handle 1, a terminate-by-id for the same
\* id found nothing, and the drop cleanup found the handle empty
C34_Witness ==
    /\ tasks["t1"].op = "cleanup" /\ tasks["t1"].pc = "done"
    /\ tasks["t1"].removed = {1}
    /\ tasks["t2"].op = "terminate" /\ tasks["t2"].pc = "done"
    /\ tasks["t2"].sid = "s1" /\ tasks["t2"].removed = {}
    /\ 1 \in DOMAIN process /\ process[1] = "None" /\ child[1] = "killed"
    /\ dropPending = {}
    /\ DOMAIN SESSIONS = {}

(***************************************************************************)
(* The children of one launch                                               *)
(***************************************************************************)
\* C35: one launch request spawns at most one child: the piped strategy runs its command
\* only when no child was spawned in the PTY.
C35_AtMostOneChild ==
    PipeRun => launch.ptyChild = "none"

(***************************************************************************)
(* The accumulator's buffer and flush                                       *)
(***************************************************************************)
\* the messages the buffered text yields as one segment
Pending(buffer) == process_segment(buffer, <<>>)

\* C36: after every push_chunk call the buffer holds no carriage return and no newline;
\* the buffered text yields at most one message; flush returns that message if there is
\* one and leaves the buffer empty; a second flush right after it returns nothing.
C36_FlushSingleSegment ==
    /\ [](acc # None =>
            /\ \A i \in DOMAIN acc[1].buffer : acc[1].buffer[i] \notin LineBreaks
            /\ Len(Pending(acc[1].buffer)) <= 1)
    /\ [][acc # None /\ acc' # acc =>
            /\ (~acc[1].flushed /\ acc'[1].flushed) =>
                   /\ acc'[1].out = acc[1].out \o Pending(acc[1].buffer)
                   /\ acc'[1].buffer = <<>>
            /\ acc[1].flushed =>
                   /\ acc'[1].out = acc[1].out
                   /\ acc'[1].buffer = <<>>]_vars

\* the stream ended in a partial line whose message the first flush returned, and a
\* second flush has run
C36_Witness ==
    /\ acc # None
    /\ acc[1].again
    /\ acc[1].cut
    /\ acc[1].buffer = <<>>
    /\ acc[1].out # <<>>
    /\ acc[1].out # push_chunk(<<>>, acc[1].text).results

(***************************************************************************)
(* The registry operations with the holder of each tokio Mutex explicit:    *)
(* SESSIONS, SESSION_INDEX and the Arc<Mutex<Option<Child>>> of each        *)
(* session.  lock().await is a step of its own that waits until the mutex   *)
(* is free; the statements under the guard are the steps defined above; the *)
(* guard is dropped at the end of its scope in a third step.  A lock        *)
(* remembers where its holder was when it got it, which tells whether the   *)
(* statements under the guard have run.                                     *)
(***************************************************************************)
\* a mutex nobody holds, for ever
KeepLocked(l) == l

\* the guard goes out of scope
Unlocked(l) == None

\* the guard lock().await returns to task t
Guard(t) == Some([owner |-> t, pc |-> tasks[t].pc, todo |-> tasks[t].todo])
DropGuard == Some([owner |-> "drop", pc |-> "drop", todo |-> {}])

OwnedBy(l, t) == l # None /\ l[1].owner = t

\* task t holds the guard and has not yet run the statements under it
Entered(l, t) ==
    /\ OwnedBy(l, t)
    /\ l[1].pc = tasks[t].pc
    /\ l[1].todo = tasks[t].todo

HoldsNone(t) ==
    /\ ~OwnedBy(locks.sessions, t)
    /\ ~OwnedBy(locks.index, t)
    /\ \A h \in Handles : ~OwnedBy(locks.process[h], t)

\* a command is invoked: its first statement is still to run
Called(t) == tasks[t].pc = "idle" /\ tasks[t].op = "called"

Call(t) ==
    /\ ~Busy(t)
    /\ ~Called(t)
    /\ HoldsNone(t)
    /\ tasks' = [Fresh(t) EXCEPT ![t].op = "called"]
    /\ UNCHANGED <<SESSIONS, SESSION_INDEX, process, child, chan, dropPending, now,
                   launchVars, pureVars, locks>>

\* SESSIONS.lock().await: the first statement of terminate_session_process,
\* get_sessions_status, terminate_all_active_sessions and send_quit_to_session, the
\* scan of the sweep, and the terminate call of each round of the two loops
LockSessions(t) ==
    /\ Called(t) \/ tasks[t].pc \in {"scan", "loop"}
    /\ HoldsNone(t)
    /\ locks.sessions = None
    /\ locks' = [locks EXCEPT !.sessions = Guard(t)]
    /\ UNCHANGED <<regVars, launchVars, pureVars>>

UnlockSessions(t) ==
    /\ OwnedBy(locks.sessions, t)
    /\ ~Entered(locks.sessions, t)
    /\ locks' = [locks EXCEPT !.sessions = Unlocked(@)]
    /\ UNCHANGED <<regVars, launchVars, pureVars>>

\* SESSION_INDEX.lock().await
LockIndex(t) ==
    /\ tasks[t].pc = "index"
    /\ HoldsNone(t)
    /\ locks.index = None
    /\ locks' = [locks EXCEPT !.index = Guard(t)]
    /\ UNCHANGED <<regVars, launchVars, pureVars>>

UnlockIndex(t) ==
    /\ OwnedBy(locks.index, t)
    /\ ~Entered(locks.index, t)
    /\ locks' = [locks EXCEPT !.index = Unlocked(@)]
    /\ UNCHANGED <<regVars, launchVars, pureVars>>

\* session.process.lock().await in terminate_session_process
LockProcess(t) ==
    /\ tasks[t].pc = "kill"
    /\ HoldsNone(t)
    /\ locks.process[tasks[t].session[1].process] = None
    /\ locks' = [locks EXCEPT !.process[tasks[t].session[1].process] = Guard(t)]
    /\ UNCHANGED <<regVars, launchVars, pureVars>>

UnlockProcess(t) ==
    /\ \E h \in Handles :
          /\ OwnedBy(locks.process[h], t)
          /\ ~Entered(locks.process[h], t)
          /\ locks' = [locks EXCEPT !.process[h] = Unlocked(@)]
    /\ UNCHANGED <<regVars, launchVars, pureVars>>

\* process.lock().await in the cleanup task that Drop spawned
LockProcessDrop(h) ==
    /\ h \in dropPending
    /\ locks.process[h] = None
    /\ locks' = [locks EXCEPT !.process[h] = DropGuard]
    /\ UNCHANGED <<regVars, launchVars, pureVars>>

UnlockProcessDrop(h) ==
    /\ locks.process[h] = DropGuard
    /\ h \notin dropPending
    /\ locks' = [locks EXCEPT !.process[h] = Unlocked(@)]
    /\ UNCHANGED <<regVars, launchVars, pureVars>>

\* the statements a task runs under a guard it holds: task t1 runs the commands that
\* enumerate the registry, task t2 the commands that name one session
UnderSessions(t) ==
    /\ Entered(locks.sessions, t)
    /\ \/ t = "t2" /\ \E id \in SessionIds : TerminateById(t, id)
       \/ t = "t2" /\ \E id \in SessionIds : SendQuitToSession(t, id)
       \/ t = "t1" /\ TerminateAllStart(t)
       \/ t = "t1" /\ GetSessionsStatus(t)
       \/ CleanupScan(t)
       \/ LoopNext(t)

UnderIndex(t) == Entered(locks.index, t) /\ TerminateIndex(t)

UnderProcess(t) ==
    /\ tasks[t].pc = "kill"
    /\ Entered(locks.process[tasks[t].session[1].process], t)
    /\ TerminateKill(t)

UnderProcessDrop(h) == locks.process[h] = DropGuard /\ DropCleanup(h)

\* the statements a task runs while it holds no guard
Unguarded(t) ==
    /\ HoldsNone(t)
    /\ \/ t = "t1" /\ Called(t) /\ CleanupStart(t)
       \/ TerminateQuit(t)
       \/ TerminateGrace(t)

\* spec 4.5 Register: both maps in one transaction.  One session is registered, under
\* either id; the operations contend for the two registry locks and its process lock
RegisterLocked(id, agent, wd, stdin) ==
    /\ process = EmptyMap
    /\ locks.sessions = None
    /\ locks.index = None
    /\ Register(id, agent, wd, stdin)

NextLocks ==
    \/ \E id \in SessionIds, r \in RaceLaunches :
          RegisterLocked(id, r.agent, r.working_dir, r.stdin)
    \/ \E t \in Callers : Call(t)
    \/ \E t \in Callers : LockSessions(t)
    \/ \E t \in Callers : UnderSessions(t)
    \/ \E t \in Callers : UnlockSessions(t)
    \/ \E t \in Callers : LockIndex(t)
    \/ \E t \in Callers : UnderIndex(t)
    \/ \E t \in Callers : UnlockIndex(t)
    \/ \E t \in Callers : LockProcess(t)
    \/ \E t \in Callers : UnderProcess(t)
    \/ \E t \in Callers : UnlockProcess(t)
    \/ \E t \in Callers : Unguarded(t)
    \/ \E h \in Handles : LockProcessDrop(h)
    \/ \E h \in Handles : UnderProcessDrop(h)
    \/ \E h \in Handles : UnlockProcessDrop(h)

SpecLocks == Init /\ [][NextLocks]_vars

\* the steps of an operation that was invoked
Proceed(t) ==
    \/ LockSessions(t)
    \/ LockIndex(t)
    \/ LockProcess(t)
    \/ UnderSessions(t)
    \/ UnlockSessions(t)
    \/ UnderIndex(t)
    \/ UnlockIndex(t)
    \/ UnderProcess(t)
    \/ UnlockProcess(t)
    \/ HoldsNone(t) /\ (TerminateQuit(t) \/ TerminateGrace(t))

\* the runtime schedules every task that can run; the tokio Mutex is fair (it serves
\* lock() calls in the order they were made), so a task that waits for a mutex which is
\* freed again and again gets it; kill and the grace-period sleep return
FairSpecLocks ==
    /\ SpecLocks
    /\ \A t \in Callers : SF_vars(Proceed(t))
    /\ \A h \in Handles :
          SF_vars(LockProcessDrop(h) \/ UnderProcessDrop(h) \/ UnlockProcessDrop(h))

\* the guards task t holds
GuardsHeld(t) ==
    (IF OwnedBy(locks.sessions, t) THEN 1 ELSE 0)
      + (IF OwnedBy(locks.index, t) THEN 1 ELSE 0)
      + Cardinality({h \in Handles : OwnedBy(locks.process[h], t)})

Running(t) == Called(t) \/ Busy(t) \/ ~HoldsNone(t)

\* C37: the registry operations are deadlock-free: no operation holds two of the locks at
\* a time, so none waits for a lock while it holds another; every operation that was
\* invoked returns with its guards dropped, and every drop cleanup task finishes.
C37_DeadlockFree ==
    /\ [](\A t \in Callers : GuardsHeld(t) <= 1)
    /\ \A t \in Callers : Running(t) ~> ~Running(t)
    /\ \A h \in Handles :
          (h \in dropPending \/ locks.process[h] = DropGuard)
             ~> (h \notin dropPending /\ locks.process[h] = None)

\* terminate-all waits for the SESSIONS lock held by a terminate-by-id, while the drop
\* cleanup of a session that was terminated before holds that session's process lock
C37_Witness ==
    /\ tasks["t1"].op = "terminate_all" /\ tasks["t1"].pc = "loop"
    /\ OwnedBy(locks.sessions, "t2")
    /\ \E h \in Handles : locks.process[h] = DropGuard

(***************************************************************************)
(* The sweep and a session registered after its scan                        *)
(***************************************************************************)
\* C38: the idle sweep removes no session that is within the timeout threshold at the
\* moment of the removal: a session it has taken out of the primary map has been idle
\* for more than the threshold, also when the id was terminated and registered again
\* after the sweep's scan.
C38_SweepSparesFresh ==
    \A t \in Callers :
        tasks[t].op = "cleanup" /\ tasks[t].session # None =>
            Expired(now, tasks[t].session[1])

(***************************************************************************)
(* The fields of a registered session: the operations that read the         *)
(* registry, the sweep, and a launch beside them.                           *)
(***************************************************************************)
NextFrame ==
    \/ \E id \in SessionIds, r \in RaceLaunches :
          Register(id, r.agent, r.working_dir, r.stdin)
    \/ Tick
    \/ \E h \in Handles : DropCleanup(h)
    \/ \E t \in Tasks : GetSessionsStatus(t)
    \/ \E t \in Tasks, id \in SessionIds : SendQuitToSession(t, id)
    \/ \E t \in Tasks : CleanupStart(t)
    \/ \E t \in Tasks : CleanupScan(t)
    \/ \E t \in Tasks : LoopNext(t)
    \/ \E t \in Tasks : TerminateIndex(t)
    \/ \E t \in Tasks : TerminateQuit(t)
    \/ \E t \in Tasks : TerminateGrace(t)
    \/ \E t \in Tasks : TerminateKill(t)
    \/ ExecutePersistentCliCommand("s1", "claude", Some("/w"))
    \/ EmitInfo
    \/ GateUnavailable
    \/ GateAvailable
    \/ PipeSpawnOk
    \/ PipeSpawnErr
    \/ \E status \in {"exit0", "exit1"} : PipeChildExit(status)
    \/ StdoutReaderEnds
    \/ StderrReaderEnds
    \/ PipeWaitOk
    \/ PipeWaitErr

SpecFrame == Init /\ [][NextFrame]_vars

\* C39: no operation changes the id, agent, working_dir, created_at or last_activity of
\* a session while it is registered: launch, status enumeration, send-quit and the sweep
\* leave them as they were at creation, so last_activity is created_at and the sweep
\* selects a session by the time since it was created.
C39_SessionFieldsFrozen ==
    /\ [][\A id \in DOMAIN SESSIONS \cap DOMAIN SESSIONS' :
            SESSIONS'[id].session = SESSIONS[id].session]_vars
    /\ [](\A id \in DOMAIN SESSIONS :
            /\ SESSIONS[id].session.id = id
            /\ SESSIONS[id].session.last_activity = SESSIONS[id].session.created_at)
    /\ [](\A t \in Tasks :
            tasks[t].op = "cleanup" /\ tasks[t].pc # "scan" =>
               /\ \A s \in tasks[t].old :
                     tasks[t].time - s.session.created_at > SESSION_TIMEOUT_SECONDS
               /\ \A s \in tasks[t].young :
                     tasks[t].time - s.session.created_at <= SESSION_TIMEOUT_SECONDS)

\* after a launch and a send-quit to a session that is still registered, the sweep has
\* removed another session, which it found older than the threshold
C39_Witness ==
    /\ launch.pc = "done"
    /\ tasks["t1"].op = "cleanup" /\ tasks["t1"].pc = "done"
    /\ tasks["t1"].old # {}
    /\ tasks["t1"].removed # {}
    /\ \E id \in DOMAIN SESSIONS :
          /\ chan[SESSIONS[id].process].msgs # <<>>
          /\ SESSIONS[id].session.created_at < now

====
